---- MODULE Spec2Model ----
(***************************************************************************)
(* mcstatusgo: client side of the Minecraft status and query protocols.    *)
(* Bytes are the integers 0..255, a []byte or a Go string is a sequence of *)
(* bytes, and an error value is a record (see Err).                        *)
(***************************************************************************)
EXTENDS Integers, Sequences, FiniteSets, TLC

VARIABLES
    call,       \* the function or entry point the behaviour is running
    pc,         \* its position: "call" before it runs, "done" after it returned
    response,   \* the bytes handed to the parser (the server's reply)
    json,       \* the JSON document the body of a status response spells
    pong,       \* the 10-byte buffer calculateLatency read the pong into
    result,     \* what the call returned
    con,        \* the connection: "none", "open", "closed" (Close) or "reset"
    wire,       \* the bytes the server sends that the call has not read yet
    ops,        \* the network operations the call has issued, in order
    sizePrefix, \* the bytes of the size prefix read so far (varInt of readResponseSize)
    responseSize, \* the decoded size prefix, or the int handed to writeVarInt
    latency,    \* the duration measured around the timed read
    sessionID,  \* the session ID a query call created
    challengeToken, \* the challenge token a query call parsed from the reply
    randSource  \* the global source of math/rand: its seed and the draws made since

netvars ==
    <<con, wire, ops, sizePrefix, responseSize, latency, sessionID, challengeToken,
      randSource>>

vars ==
    <<call, pc, response, json, pong, result, con, wire, ops, sizePrefix, responseSize,
      latency, sessionID, challengeToken, randSource>>

(***************************************************************************)
(* Bounds of the model.                                                    *)
(***************************************************************************)
MaxFrameLen == 7

MaxLegacyRaw == 11

MaxLegacyFields == 6

MaxBasicRaw == 10

MaxBasicFields == 6

MaxOddKeys == 2

MaxPluginLen == 7

MaxPluginEntries == 3

MaxPlayerLen == 7

MaxVarIntLen == 7

\* The readings of the clock, time.Now().UnixNano(), that seed the source.
MaxClock == 3

\* The calls that run concurrently.
MaxCalls == 2

(***************************************************************************)
(* Generic helpers.                                                        *)
(***************************************************************************)
\* All sequences over S of length 0..n.
SeqsUpTo(S, n) == UNION {[1..k -> S] : k \in 0..n}

\* s[from:] of Go, with from counted from 0.
SliceFrom(s, from) == SubSeq(s, from + 1, Len(s))

\* s[:to] of Go.
SliceTo(s, to) == SubSeq(s, 1, to)

Pow2(n) == 2 ^ n

(***************************************************************************)
(* Errors.                                                                 *)
(***************************************************************************)
\* An error value; kind "nil" is Go's nil error. Protocol and MissingValue
\* are the fields of ErrMissingInformation and empty for every other error.
Err(kind) == [kind |-> kind, Protocol |-> "", MissingValue |-> ""]

NoErr == Err("nil")

ErrShortStatusResponse == Err("ErrShortStatusResponse")

ErrInvalidSizeInfo == Err("ErrInvalidSizeInfo")

ErrLargeVarInt == Err("ErrLargeVarInt")

ErrInvalidPong == Err("ErrInvalidPong")

ErrMissingInformation(protocol, missingValue) ==
    [kind |-> "ErrMissingInformation", Protocol |-> protocol, MissingValue |-> missingValue]

(***************************************************************************)
(* VarInt codec.                                                           *)
(***************************************************************************)
\* A Go int has 64 bits, more than an integer of TLC holds.  It is kept as
\* its bits from 28 up (hi, with the sign) and its bits 0..27 (lo): the
\* value is hi * 2^28 + lo.
int(n) == [hi |-> n \div Pow2(28), lo |-> n % Pow2(28)]

\* a < b for two ints.
intLess(a, b) == a.hi < b.hi \/ (a.hi = b.hi /\ a.lo < b.lo)

\* number | group << bitOffSet, for a group of 7 bits at one of the offsets
\* 0, 7, 14, 21, 28 whose bits are 0 in number.
orShifted(number, group, bitOffSet) ==
    IF bitOffSet < 28
    THEN [number EXCEPT !.lo = @ + group * Pow2(bitOffSet)]
    ELSE [number EXCEPT !.hi = @ + group * Pow2(bitOffSet - 28)]

\* The loop of readVarInt with the limit one byte early.
RECURSIVE readVarIntLoop_FourByteLimit(_, _, _, _)
readVarIntLoop_FourByteLimit(varInt, i, number, bitOffSet) ==
    IF i > Len(varInt) THEN [number |-> number, err |-> NoErr]
    ELSE IF bitOffSet = 28 THEN [number |-> int(-1), err |-> ErrLargeVarInt]
    ELSE LET n == orShifted(number, varInt[i] % 128, bitOffSet)
         IN  IF varInt[i] < 128
             THEN [number |-> n, err |-> NoErr]
             ELSE readVarIntLoop_FourByteLimit(varInt, i + 1, n, bitOffSet + 7)

\* The loop of readVarInt from byte i on.
RECURSIVE readVarIntLoop(_, _, _, _)
readVarIntLoop(varInt, i, number, bitOffSet) ==
    IF i > Len(varInt) THEN [number |-> number, err |-> NoErr]
    ELSE IF bitOffSet = 35 THEN [number |-> int(-1), err |-> ErrLargeVarInt]
    ELSE LET n == orShifted(number, varInt[i] % 128, bitOffSet)
         IN  IF varInt[i] < 128
             THEN [number |-> n, err |-> NoErr]
             ELSE readVarIntLoop(varInt, i + 1, n, bitOffSet + 7)

readVarInt_FourByteLimit(varInt) == readVarIntLoop_FourByteLimit(varInt, 1, int(0), 0)

readVarInt(varInt) == readVarIntLoop(varInt, 1, int(0), 0)

\* The loop of writeVarInt, for a number that is not negative.
\* number&0xFFFFFF80 == 0 tests bits 7..31 only: bits 7..27 are lo \div 128
\* and bits 28..31 are hi % 16.  number >>= 7 moves the low 7 bits of hi to
\* bits 21..27 of lo.
RECURSIVE writeVarIntLoop(_, _)
writeVarIntLoop(number, varInt) ==
    IF number.lo \div 128 = 0 /\ number.hi % 16 = 0
    THEN Append(varInt, number.lo % 128)
    ELSE writeVarIntLoop([hi |-> number.hi \div 128,
                          lo |-> number.lo \div 128 + (number.hi % 128) * Pow2(21)],
                         Append(varInt, (number.lo % 128) + 128))

writeVarInt(number) == writeVarIntLoop(number, <<>>)

(***************************************************************************)
(* Modern status: the request.                                             *)
(***************************************************************************)
packetID == 0

protocolVersion == 47

nextState == 1

requestPacket == <<nextState, packetID>>

pingPacket == <<9, 1, 7, 7, 7, 7, 7, 7, 7, 7>>

serverToBytes(server) == writeVarInt(int(Len(server))) \o server

\* binary.BigEndian.PutUint16.
portToBytes(port) == <<(port \div 256) % 256, port % 256>>

createStatusHandshakePacket(server, port) ==
    LET handshake == <<packetID, protocolVersion>> \o serverToBytes(server)
                         \o portToBytes(port) \o <<nextState>>
    IN  writeVarInt(int(Len(handshake))) \o handshake

(***************************************************************************)
(* Modern status: framing of the payload.                                  *)
(***************************************************************************)
\* The loop that collects the JSON-length varint: the bytes of resp up to and
\* including the first byte without the continuation bit, or all of resp.
RECURSIVE jsonLenLoop(_, _, _)
jsonLenLoop(resp, i, jsonLen) ==
    IF i > Len(resp) THEN jsonLen
    ELSE IF resp[i] < 128 THEN Append(jsonLen, resp[i])
    ELSE jsonLenLoop(resp, i + 1, Append(jsonLen, resp[i]))

formatStatusResponse_SizeBeforeStrip(resp) ==
    IF Len(resp) < 4 THEN [response |-> <<>>, err |-> ErrShortStatusResponse]
    ELSE LET noState == SliceFrom(resp, 1)
             jsonLen == jsonLenLoop(noState, 1, <<>>)
             body == SliceFrom(noState, Len(jsonLen))
             decoded == readVarInt(jsonLen)
         IN  IF decoded.err # NoErr THEN [response |-> <<>>, err |-> decoded.err]
             ELSE IF decoded.number # int(Len(noState))
                  THEN [response |-> <<>>, err |-> ErrInvalidSizeInfo]
                  ELSE [response |-> body, err |-> NoErr]

formatStatusResponse(resp) ==
    IF Len(resp) < 4 THEN [response |-> <<>>, err |-> ErrShortStatusResponse]
    ELSE LET noState == SliceFrom(resp, 1)
             jsonLen == jsonLenLoop(noState, 1, <<>>)
             body == SliceFrom(noState, Len(jsonLen))
             decoded == readVarInt(jsonLen)
         IN  IF decoded.err # NoErr THEN [response |-> <<>>, err |-> decoded.err]
             ELSE IF decoded.number # int(Len(body))
                  THEN [response |-> <<>>, err |-> ErrInvalidSizeInfo]
                  ELSE [response |-> body, err |-> NoErr]

(***************************************************************************)
(* Modern status: the JSON document.                                       *)
(*                                                                         *)
(* encoding/json is not part of the repository; a document is modelled by  *)
(* what json.Unmarshal makes of each member the program reads. A member is *)
(* "absent" (no such key), "null" (the JSON null), "ok" (a value of the    *)
(* JSON type of the Go field it is stored in) or "bad" (a non-null value   *)
(* of another JSON type). The description is stored in an interface{}, so  *)
(* it has no "bad" value; it is a JSON "string" or a JSON "object".        *)
(* top is "invalid" for bytes that are not JSON, "null" for the document   *)
(* null, "bad" for any other document that is not an object.               *)
(***************************************************************************)
MemberKinds == {"absent", "null", "ok", "bad"}

DescriptionKinds == {"absent", "null", "string", "object"}

\* The members of a container that is not a JSON object are not there.
NoPlayers(kind) == [kind |-> kind, max |-> "absent", online |-> "absent", sample |-> "absent"]

NoVersion(kind) == [kind |-> kind, name |-> "absent", protocol |-> "absent"]

PlayersMembers ==
    {NoPlayers(k) : k \in {"absent", "null", "bad"}} \cup
    [kind : {"object"}, max : MemberKinds, online : MemberKinds, sample : MemberKinds]

VersionMembers ==
    {NoVersion(k) : k \in {"absent", "null", "bad"}} \cup
    [kind : {"object"}, name : MemberKinds, protocol : MemberKinds]

NotAnObject(top) ==
    [top |-> top, description |-> "absent", players |-> NoPlayers("absent"),
     version |-> NoVersion("absent"), favicon |-> "absent", modinfo |-> "absent"]

Documents ==
    {NotAnObject(t) : t \in {"invalid", "null", "bad"}} \cup
    [top : {"object"}, description : DescriptionKinds, players : PlayersMembers,
     version : VersionMembers, favicon : MemberKinds, modinfo : MemberKinds]

ErrJSONSyntax == Err("json.SyntaxError")

ErrJSONType == Err("json.UnmarshalTypeError")

\* A slice: Go tells a nil slice from an empty one.
NilSlice == [isNil |-> TRUE, elems |-> <<>>]

Slice(elems) == [isNil |-> FALSE, elems |-> elems]

\* The values the "ok" members of a document carry.
SampleValue == Slice(<<[name |-> "Notch", id |-> "069a79f4"]>>)

ModListValue == Slice(<<[modid |-> "forge", version |-> "14.23"]>>)

\* json.MarshalIndent of the decoded description, with indent "  ".
MarshalIndent(descriptionKind) ==
    IF descriptionKind = "string" THEN "\"A Minecraft Server\""
    ELSE IF descriptionKind = "object" THEN "{\n  \"text\": \"A Minecraft Server\"\n}"
    ELSE "null"

\* StatusResponse{}.
ZeroStatusResponse ==
    [IP |-> "", Port |-> 0, Latency |-> 0, Description |-> "", Favicon |-> "",
     Version |-> [Name |-> "", Protocol |-> 0],
     Players |-> [Max |-> 0, Online |-> 0, Sample |-> NilSlice],
     ModInfo |-> [Type |-> "", ModList |-> NilSlice]]

\* json.Unmarshal into a struct whose members are the structs Players and
\* Version with interface{} fields: bytes that are not JSON, a document that
\* is neither an object nor null, and a players or version member that is
\* neither an object nor null are errors; null leaves its target untouched.
unmarshalVerifyErr(doc) ==
    IF doc.top = "invalid" THEN ErrJSONSyntax
    ELSE IF doc.top = "bad" THEN ErrJSONType
    ELSE IF doc.players.kind = "bad" \/ doc.version.kind = "bad" THEN ErrJSONType
    ELSE NoErr

\* An interface{} field is nil when its key is absent or its value is null.
IsNil(memberKind) == memberKind \in {"absent", "null"}

validateStatusResponse_OnlineBeforeMax(doc) ==
    LET err == unmarshalVerifyErr(doc)
    IN  IF err # NoErr THEN err
        ELSE IF IsNil(doc.description) THEN ErrMissingInformation("status", "description")
        ELSE IF IsNil(doc.players.online) THEN ErrMissingInformation("status", "online players")
        ELSE IF IsNil(doc.players.max) THEN ErrMissingInformation("status", "max players")
        ELSE IF IsNil(doc.version.name) THEN ErrMissingInformation("status", "version name")
        ELSE IF IsNil(doc.version.protocol) THEN ErrMissingInformation("status", "version protocol")
        ELSE NoErr

validateStatusResponse(doc) ==
    LET err == unmarshalVerifyErr(doc)
    IN  IF err # NoErr THEN err
        ELSE IF IsNil(doc.description) THEN ErrMissingInformation("status", "description")
        ELSE IF IsNil(doc.players.max) THEN ErrMissingInformation("status", "max players")
        ELSE IF IsNil(doc.players.online) THEN ErrMissingInformation("status", "online players")
        ELSE IF IsNil(doc.version.name) THEN ErrMissingInformation("status", "version name")
        ELSE IF IsNil(doc.version.protocol) THEN ErrMissingInformation("status", "version protocol")
        ELSE NoErr

\* json.Unmarshal(formatedResponse, &status): a member is stored when it is
\* "ok", left alone when absent or null, and a type error when "bad". The
\* Description field is tagged json:"-" and never written here.
unmarshalStatusErr(doc) ==
    IF unmarshalVerifyErr(doc) # NoErr THEN unmarshalVerifyErr(doc)
    ELSE IF "bad" \in {doc.players.max, doc.players.online, doc.players.sample,
                       doc.version.name, doc.version.protocol, doc.favicon, doc.modinfo}
         THEN ErrJSONType
         ELSE NoErr

unmarshalStatus(doc, status) ==
    [status EXCEPT
        !.Favicon = IF doc.favicon = "ok" THEN "data:image/png;base64,AAAA" ELSE @,
        !.Version = [Name |-> IF doc.version.name = "ok" THEN "1.8.9" ELSE @.Name,
                     Protocol |-> IF doc.version.protocol = "ok" THEN 47 ELSE @.Protocol],
        !.Players = [Max |-> IF doc.players.max = "ok" THEN 20 ELSE @.Max,
                     Online |-> IF doc.players.online = "ok" THEN 5 ELSE @.Online,
                     Sample |-> IF doc.players.sample = "ok" THEN SampleValue ELSE @.Sample],
        !.ModInfo = IF doc.modinfo = "ok" THEN [Type |-> "FML", ModList |-> ModListValue] ELSE @]

\* packageDescription cannot fail once validateStatusResponse has passed:
\* the bytes are JSON and every decoded JSON value can be marshalled.
packageDescription(doc, status) ==
    [status EXCEPT !.Description = MarshalIndent(doc.description)]

packageStatusResponse_StrictOptional(serverIP, port, lat, resp, doc) ==
    LET formated == formatStatusResponse(resp)
    IN  IF formated.err # NoErr THEN [status |-> ZeroStatusResponse, err |-> formated.err]
        ELSE IF validateStatusResponse(doc) # NoErr
             THEN [status |-> ZeroStatusResponse, err |-> validateStatusResponse(doc)]
        ELSE IF doc.favicon = "absent" \/ doc.players.sample = "absent" \/ doc.modinfo = "absent"
             THEN [status |-> ZeroStatusResponse, err |-> ErrMissingInformation("status", "favicon")]
        ELSE IF unmarshalStatusErr(doc) # NoErr
             THEN [status |-> ZeroStatusResponse, err |-> unmarshalStatusErr(doc)]
        ELSE [status |-> packageDescription(doc, unmarshalStatus(doc,
                            [ZeroStatusResponse EXCEPT !.IP = serverIP, !.Port = port,
                                                       !.Latency = lat])),
              err |-> NoErr]

packageStatusResponse(serverIP, port, lat, resp, doc) ==
    LET formated == formatStatusResponse(resp)
    IN  IF formated.err # NoErr THEN [status |-> ZeroStatusResponse, err |-> formated.err]
        ELSE IF validateStatusResponse(doc) # NoErr
             THEN [status |-> ZeroStatusResponse, err |-> validateStatusResponse(doc)]
        ELSE IF unmarshalStatusErr(doc) # NoErr
             THEN [status |-> ZeroStatusResponse, err |-> unmarshalStatusErr(doc)]
        ELSE [status |-> packageDescription(doc, unmarshalStatus(doc,
                            [ZeroStatusResponse EXCEPT !.IP = serverIP, !.Port = port,
                                                       !.Latency = lat])),
              err |-> NoErr]

(***************************************************************************)
(* strconv.ParseInt(s, 10, 32) and stringToInt.                            *)
(***************************************************************************)
ErrSyntax == Err("strconv.ErrSyntax")

ErrRange == Err("strconv.ErrRange")

IsDigit(b) == 48 <= b /\ b <= 57

\* The digits of s accumulated as a negative number, so that the magnitude
\* 2^31 of the smallest 32-bit integer is representable; "range" when the
\* magnitude exceeds limit (2^31 - 1, or 2^31 behind a minus sign).
RECURSIVE parseDigits(_, _, _, _)
parseDigits(s, i, acc, lowest) ==
    IF i > Len(s) THEN [acc |-> acc, ok |-> TRUE]
    ELSE LET d == s[i] - 48
         IN  IF acc < (lowest + d + 9) \div 10
             THEN [acc |-> 0, ok |-> FALSE]
             ELSE parseDigits(s, i + 1, acc * 10 - d, lowest)

\* strconv.ParseInt(s, 10, 32): an optional sign, then one or more decimal
\* digits; the value must fit in 32 bits.
ParseInt32(s) ==
    LET signed == s # <<>> /\ s[1] \in {43, 45}
        neg == s # <<>> /\ s[1] = 45
        digits == IF signed THEN Tail(s) ELSE s
        lowest == IF neg THEN -2147483647 - 1 ELSE -2147483647
        parsed == parseDigits(digits, 1, 0, lowest)
    IN  IF digits = <<>> \/ \E i \in 1..Len(digits) : ~IsDigit(digits[i])
        THEN [num |-> 0, err |-> ErrSyntax]
        ELSE IF ~parsed.ok THEN [num |-> IF neg THEN lowest ELSE 2147483647, err |-> ErrRange]
        ELSE [num |-> IF neg THEN parsed.acc ELSE -parsed.acc, err |-> NoErr]

stringToInt(numString) ==
    LET parsed == ParseInt32(numString)
    IN  IF parsed.err # NoErr THEN [num |-> -1, err |-> parsed.err]
        ELSE [num |-> parsed.num, err |-> NoErr]

(***************************************************************************)
(* Legacy status.                                                          *)
(***************************************************************************)
legacyHeaderSize == 9

ErrShortQueryResponse == Err("ErrShortQueryResponse")

ErrShortStatusLegacyResponse == Err("ErrShortStatusLegacyResponse")

ErrStatusLegacyMissingInformation == Err("ErrStatusLegacyMissingInformation")

\* StatusLegacyResponse{}; Description and Version.Name are strings of bytes.
ZeroStatusLegacyResponse ==
    [IP |-> "", Port |-> 0, Latency |-> 0, Description |-> <<>>,
     Version |-> [Name |-> <<>>, Protocol |-> 0],
     Players |-> [Max |-> 0, Online |-> 0]]

\* The loop of parseLegacyStatusResponse from byte i on, and the append of
\* the final value after it.
RECURSIVE legacyLoop(_, _, _, _, _)
legacyLoop(resp, i, responseList, currentValue, appendValue) ==
    IF i > Len(resp) THEN Append(responseList, currentValue)
    ELSE IF resp[i] = 0
         THEN IF appendValue
              THEN legacyLoop(resp, i + 1, Append(responseList, currentValue), <<>>, FALSE)
              ELSE legacyLoop(resp, i + 1, responseList, currentValue, TRUE)
         ELSE legacyLoop(resp, i + 1, responseList, Append(currentValue, resp[i]), FALSE)

\* The loop with a lone null kept in the value it stands in.
RECURSIVE legacyLoop_KeepsLoneNull(_, _, _, _, _)
legacyLoop_KeepsLoneNull(resp, i, responseList, currentValue, appendValue) ==
    IF i > Len(resp) THEN Append(responseList, currentValue)
    ELSE IF resp[i] = 0
         THEN IF appendValue
              THEN legacyLoop_KeepsLoneNull(resp, i + 1, Append(responseList, currentValue),
                                            <<>>, FALSE)
              ELSE legacyLoop_KeepsLoneNull(resp, i + 1, responseList, currentValue, TRUE)
         ELSE legacyLoop_KeepsLoneNull(
                  resp, i + 1, responseList,
                  (IF appendValue THEN Append(currentValue, 0) ELSE currentValue)
                      \o <<resp[i]>>,
                  FALSE)

parseLegacyStatusResponse_KeepsLoneNull(resp) ==
    IF Len(resp) < 10 THEN [responseList |-> <<>>, err |-> ErrShortQueryResponse]
    ELSE [responseList |->
              legacyLoop_KeepsLoneNull(SliceFrom(resp, legacyHeaderSize), 1, <<>>, <<>>, FALSE),
          err |-> NoErr]

\* The loop with appendValue left set after a value is appended, so that a
\* third null in a row ends a value too.
RECURSIVE legacyLoop_OverlappingPairs(_, _, _, _, _)
legacyLoop_OverlappingPairs(resp, i, responseList, currentValue, appendValue) ==
    IF i > Len(resp) THEN Append(responseList, currentValue)
    ELSE IF resp[i] = 0
         THEN IF appendValue
              THEN legacyLoop_OverlappingPairs(resp, i + 1, Append(responseList, currentValue),
                                               <<>>, TRUE)
              ELSE legacyLoop_OverlappingPairs(resp, i + 1, responseList, currentValue, TRUE)
         ELSE legacyLoop_OverlappingPairs(resp, i + 1, responseList,
                                          Append(currentValue, resp[i]), FALSE)

parseLegacyStatusResponse_OverlappingPairs(resp) ==
    IF Len(resp) < 10 THEN [responseList |-> <<>>, err |-> ErrShortQueryResponse]
    ELSE [responseList |->
              legacyLoop_OverlappingPairs(SliceFrom(resp, legacyHeaderSize), 1, <<>>, <<>>, FALSE),
          err |-> NoErr]

parseLegacyStatusResponse(resp) ==
    IF Len(resp) < 10 THEN [responseList |-> <<>>, err |-> ErrShortQueryResponse]
    ELSE [responseList |-> legacyLoop(SliceFrom(resp, legacyHeaderSize), 1, <<>>, <<>>, FALSE),
          err |-> NoErr]

packageLegacyStatusValues_OnlineMaxSwapped(responseList, statusLegacy) ==
    IF Len(responseList) < 5
    THEN [statusLegacy |-> statusLegacy, err |-> ErrStatusLegacyMissingInformation]
    ELSE LET protocol == stringToInt(responseList[1])
             playersOnline == stringToInt(responseList[5])
             playersMax == stringToInt(responseList[4])
             err == IF protocol.err # NoErr THEN protocol.err
                    ELSE IF playersOnline.err # NoErr THEN playersOnline.err
                    ELSE playersMax.err
         IN  [statusLegacy |->
                 [statusLegacy EXCEPT !.Version = [Name |-> responseList[2], Protocol |-> protocol.num],
                                      !.Description = responseList[3],
                                      !.Players = [Max |-> playersMax.num, Online |-> playersOnline.num]],
              err |-> err]

packageLegacyStatusValues_ShortQueryError(responseList, statusLegacy) ==
    IF Len(responseList) < 5
    THEN [statusLegacy |-> statusLegacy, err |-> ErrShortQueryResponse]
    ELSE [statusLegacy |->
             [statusLegacy EXCEPT !.Version = [Name |-> responseList[2],
                                               Protocol |-> stringToInt(responseList[1]).num],
                                  !.Description = responseList[3],
                                  !.Players = [Max |-> stringToInt(responseList[5]).num,
                                               Online |-> stringToInt(responseList[4]).num]],
          err |-> IF stringToInt(responseList[1]).err # NoErr THEN stringToInt(responseList[1]).err
                  ELSE IF stringToInt(responseList[4]).err # NoErr
                       THEN stringToInt(responseList[4]).err
                  ELSE stringToInt(responseList[5]).err]

\* statusLegacy is updated in place: a failing conversion leaves the fields
\* set before it.
packageLegacyStatusValues(responseList, statusLegacy) ==
    IF Len(responseList) < 5
    THEN [statusLegacy |-> statusLegacy, err |-> ErrStatusLegacyMissingInformation]
    ELSE LET named == [statusLegacy EXCEPT !.Version.Name = responseList[2],
                                           !.Description = responseList[3]]
             protocol == stringToInt(responseList[1])
             withProtocol == [named EXCEPT !.Version.Protocol = protocol.num]
             playersOnline == stringToInt(responseList[4])
             withOnline == [withProtocol EXCEPT !.Players.Online = playersOnline.num]
             playersMax == stringToInt(responseList[5])
             withMax == [withOnline EXCEPT !.Players.Max = playersMax.num]
         IN  IF protocol.err # NoErr THEN [statusLegacy |-> named, err |-> protocol.err]
             ELSE IF playersOnline.err # NoErr
                  THEN [statusLegacy |-> withProtocol, err |-> playersOnline.err]
             ELSE IF playersMax.err # NoErr
                  THEN [statusLegacy |-> withOnline, err |-> playersMax.err]
             ELSE [statusLegacy |-> withMax, err |-> NoErr]

packageLegacyStatusResponse(serverIP, port, lat, resp) ==
    LET statusLegacy == [ZeroStatusLegacyResponse EXCEPT !.IP = serverIP, !.Port = port,
                                                         !.Latency = lat]
        parsed == parseLegacyStatusResponse(resp)
        packaged == packageLegacyStatusValues(parsed.responseList, statusLegacy)
    IN  IF parsed.err # NoErr THEN [status |-> ZeroStatusLegacyResponse, err |-> parsed.err]
        ELSE IF packaged.err # NoErr
             THEN [status |-> ZeroStatusLegacyResponse, err |-> packaged.err]
        ELSE [status |-> packaged.statusLegacy, err |-> NoErr]

(***************************************************************************)
(* Query: the basic response.                                              *)
(***************************************************************************)
basicHeaderSize == 5

\* BasicQueryResponse{}.
ZeroBasicQueryResponse ==
    [IP |-> "", Port |-> 0, Latency |-> 0, Description |-> <<>>, GameType |-> <<>>,
     MapName |-> <<>>, Players |-> [Max |-> 0, Online |-> 0]]

\* The loop of parseBasicQueryResponse from byte i on: a null byte ends a
\* value; the bytes after the last null are in value when the loop ends and
\* are not appended.
RECURSIVE basicLoop(_, _, _, _)
basicLoop(resp, i, responseSlice, value) ==
    IF i > Len(resp) THEN [responseSlice |-> responseSlice, value |-> value]
    ELSE IF resp[i] = 0
         THEN basicLoop(resp, i + 1, Append(responseSlice, value), <<>>)
         ELSE basicLoop(resp, i + 1, responseSlice, Append(value, resp[i]))

\* What parseBasicQueryResponse does with the values it split off.
packageBasicValues(responseSlice, basicQuery) ==
    IF Len(responseSlice) < 5 THEN [basicQuery |-> basicQuery, err |-> ErrShortQueryResponse]
    ELSE LET named == [basicQuery EXCEPT !.Description = responseSlice[1],
                                         !.GameType = responseSlice[2],
                                         !.MapName = responseSlice[3]]
             playersOnline == stringToInt(responseSlice[4])
             withOnline == [named EXCEPT !.Players.Online = playersOnline.num]
             playersMax == stringToInt(responseSlice[5])
             withMax == [withOnline EXCEPT !.Players.Max = playersMax.num]
         IN  IF playersOnline.err # NoErr THEN [basicQuery |-> named, err |-> playersOnline.err]
             ELSE IF playersMax.err # NoErr THEN [basicQuery |-> withOnline, err |-> playersMax.err]
             ELSE [basicQuery |-> withMax, err |-> NoErr]

parseBasicQueryResponse_KeepsTail(resp, basicQuery) ==
    IF Len(resp) < 5 THEN [basicQuery |-> basicQuery, err |-> ErrShortQueryResponse]
    ELSE LET split == basicLoop(SliceFrom(resp, basicHeaderSize), 1, <<>>, <<>>)
         IN  packageBasicValues(Append(split.responseSlice, split.value), basicQuery)

parseBasicQueryResponse(resp, basicQuery) ==
    IF Len(resp) < 5 THEN [basicQuery |-> basicQuery, err |-> ErrShortQueryResponse]
    ELSE packageBasicValues(
             basicLoop(SliceFrom(resp, basicHeaderSize), 1, <<>>, <<>>).responseSlice,
             basicQuery)

packageBasicQueryResponse(serverIP, port, lat, resp) ==
    LET basicQuery == [ZeroBasicQueryResponse EXCEPT !.IP = serverIP, !.Port = port,
                                                     !.Latency = lat]
        parsed == parseBasicQueryResponse(resp, basicQuery)
    IN  IF parsed.err # NoErr THEN [status |-> ZeroBasicQueryResponse, err |-> parsed.err]
        ELSE [status |-> parsed.basicQuery, err |-> NoErr]

(***************************************************************************)
(* Query: the full response.                                               *)
(***************************************************************************)
playerToken == <<0, 1, 112, 108, 97, 121, 101, 114, 95, 0, 0>>

ErrAbsentPlayerToken == Err("ErrAbsentPlayerToken")

keyValueHeaderSize == 16

\* FullQueryResponse{}: the strings are sequences of bytes.
ZeroFullQueryResponse ==
    [IP |-> "", Port |-> 0, Latency |-> 0, Description |-> <<>>, GameType |-> <<>>,
     GameID |-> <<>>, MapName |-> <<>>, Version |-> [Name |-> <<>>],
     Players |-> [Max |-> 0, Online |-> 0, PlayerList |-> NilSlice],
     ModInfo |-> [Type |-> <<>>, ModList |-> NilSlice]]

\* bytes.Index and strings.Index: the first position, counted from 1, at
\* which sep occurs in s, and 0 when it occurs nowhere.
Index(s, sep) ==
    LET at == {i \in 1..(Len(s) - Len(sep) + 1) : SubSeq(s, i, i + Len(sep) - 1) = sep}
    IN  IF at = {} THEN 0 ELSE CHOOSE i \in at : \A j \in at : i <= j

\* bytes.Split and strings.Split for a separator that is not empty: the
\* search goes on behind the separator found, so occurrences do not overlap.
RECURSIVE Split(_, _)
Split(s, sep) ==
    LET i == Index(s, sep)
    IN  IF i = 0 THEN <<s>>
        ELSE <<SubSeq(s, 1, i - 1)>> \o Split(SubSeq(s, i + Len(sep), Len(s)), sep)

\* strings.SplitN(s, sep, 2).
SplitN2(s, sep) ==
    LET i == Index(s, sep)
    IN  IF i = 0 THEN <<s>>
        ELSE <<SubSeq(s, 1, i - 1), SubSeq(s, i + Len(sep), Len(s))>>

\* A map[string]string is a function from keys to values.
EmptyMap == [k \in {} |-> <<>>]

MapSet(m, key, value) == [k \in DOMAIN m \cup {key} |-> IF k = key THEN value ELSE m[k]]

\* The loop of parseKeyValueSection from byte i on.  One step is the run of
\* the loop up to and including the next null byte: the bytes before that
\* null are currentValue.  The bytes behind the last null are never stored.
RECURSIVE keyValueLoop(_, _, _, _, _)
keyValueLoop(section, i, keyValue, isKey, responseMap) ==
    LET nulls == {j \in i..Len(section) : section[j] = 0}
    IN  IF nulls = {} THEN responseMap
        ELSE LET null == CHOOSE j \in nulls : \A o \in nulls : j <= o
                 currentValue == SubSeq(section, i, null - 1)
             IN  IF isKey
                 THEN keyValueLoop(section, null + 1, currentValue, FALSE, responseMap)
                 ELSE keyValueLoop(section, null + 1, keyValue, TRUE,
                                   MapSet(responseMap, keyValue, currentValue))

\* The order of strings in Go: byte by byte.
RECURSIVE bytesLess(_, _)
bytesLess(a, b) ==
    IF b = <<>> THEN FALSE
    ELSE IF a = <<>> THEN TRUE
    ELSE IF a[1] # b[1] THEN a[1] < b[1]
    ELSE bytesLess(Tail(a), Tail(b))

RECURSIVE sortedKeys(_)
sortedKeys(K) ==
    IF K = {} THEN <<>>
    ELSE LET least == CHOOSE k \in K : \A o \in K \ {k} : bytesLess(k, o)
         IN  <<least>> \o sortedKeys(K \ {least})

\* The string encoding/json writes for s and reads back: a byte that is not
\* valid UTF-8 becomes U+FFFD.  The texts of this model hold no multi-byte
\* character, so every byte from 128 on is such a byte.
RECURSIVE jsonString(_)
jsonString(s) ==
    IF s = <<>> THEN <<>>
    ELSE (IF s[1] >= 128 THEN <<239, 191, 189>> ELSE <<s[1]>>) \o jsonString(Tail(s))

\* json.Marshal(responseMap): the object of the pairs, sorted by key.
marshalMap(responseMap) ==
    LET keys == sortedKeys(DOMAIN responseMap)
    IN  [i \in 1..Len(keys) |->
            [key |-> jsonString(keys[i]), value |-> jsonString(responseMap[keys[i]])]]

\* The loop with a key that is in responseMap already keeping its value.
RECURSIVE keyValueLoop_FirstPairWins(_, _, _, _, _)
keyValueLoop_FirstPairWins(section, i, keyValue, isKey, responseMap) ==
    LET nulls == {j \in i..Len(section) : section[j] = 0}
    IN  IF nulls = {} THEN responseMap
        ELSE LET null == CHOOSE j \in nulls : \A o \in nulls : j <= o
                 currentValue == SubSeq(section, i, null - 1)
             IN  IF isKey
                 THEN keyValueLoop_FirstPairWins(section, null + 1, currentValue, FALSE,
                                                 responseMap)
                 ELSE keyValueLoop_FirstPairWins(
                          section, null + 1, keyValue, TRUE,
                          IF keyValue \in DOMAIN responseMap THEN responseMap
                          ELSE MapSet(responseMap, keyValue, currentValue))

parseKeyValueSection_FirstPairWins(keyValueSection) ==
    IF Len(keyValueSection) < 16 THEN [responseMapBytes |-> <<>>, err |-> ErrShortQueryResponse]
    ELSE [responseMapBytes |->
              marshalMap(keyValueLoop_FirstPairWins(
                             SliceFrom(keyValueSection, keyValueHeaderSize), 1,
                             <<>>, TRUE, EmptyMap)),
          err |-> NoErr]

parseKeyValueSection(keyValueSection) ==
    IF Len(keyValueSection) < 16 THEN [responseMapBytes |-> <<>>, err |-> ErrShortQueryResponse]
    ELSE [responseMapBytes |->
              marshalMap(keyValueLoop(SliceFrom(keyValueSection, keyValueHeaderSize), 1,
                                      <<>>, TRUE, EmptyMap)),
          err |-> NoErr]

\* The fields of verifyResponse in the order of the struct: the name, and
\* strings.ToLower of the name.
verifyResponseFields ==
    <<[name |-> <<72, 111, 115, 116, 110, 97, 109, 101>>, lower |-> "hostname"],
      [name |-> <<71, 97, 109, 101, 116, 121, 112, 101>>, lower |-> "gametype"],
      [name |-> <<71, 97, 109, 101, 95, 105, 100>>, lower |-> "game_id"],
      [name |-> <<86, 101, 114, 115, 105, 111, 110>>, lower |-> "version"],
      [name |-> <<80, 108, 117, 103, 105, 110, 115>>, lower |-> "plugins"],
      [name |-> <<77, 97, 112>>, lower |-> "map"],
      [name |-> <<78, 117, 109, 112, 108, 97, 121, 101, 114, 115>>, lower |-> "numplayers"],
      [name |-> <<77, 97, 120, 112, 108, 97, 121, 101, 114, 115>>, lower |-> "maxplayers"]>>

\* The letters of s in lower case.
foldBytes(s) == [i \in 1..Len(s) |-> IF s[i] \in 65..90 THEN s[i] + 32 ELSE s[i]]

\* json.Unmarshal gives the value of a key to the struct field of that name,
\* and, the fields having no tag, to the field whose name is the key when
\* the case of the letters is ignored.
matchesField(key, name) == foldBytes(key) = foldBytes(name)

\* The value json.Unmarshal leaves in the field called name: that of the
\* last pair of the object whose key matches, and nil without one.
RECURSIVE decodeField(_, _, _, _)
decodeField(doc, i, name, current) ==
    IF i > Len(doc) THEN current
    ELSE decodeField(doc, i + 1, name,
                     IF matchesField(doc[i].key, name)
                     THEN [isNil |-> FALSE, value |-> doc[i].value]
                     ELSE current)

unmarshalField(doc, name) == decodeField(doc, 1, name, [isNil |-> TRUE, value |-> <<>>])

RECURSIVE validateLoop_EmptyIsMissing(_, _)
validateLoop_EmptyIsMissing(doc, i) ==
    IF i > Len(verifyResponseFields) THEN NoErr
    ELSE IF unmarshalField(doc, verifyResponseFields[i].name).value = <<>>
         THEN ErrMissingInformation("query", verifyResponseFields[i].lower)
         ELSE validateLoop_EmptyIsMissing(doc, i + 1)

\* The loop of validateQueryResponse from field i on.
RECURSIVE validateLoop(_, _)
validateLoop(doc, i) ==
    IF i > Len(verifyResponseFields) THEN NoErr
    ELSE IF unmarshalField(doc, verifyResponseFields[i].name).isNil
         THEN ErrMissingInformation("query", verifyResponseFields[i].lower)
         ELSE validateLoop(doc, i + 1)

validateQueryResponse_EmptyIsMissing(responseMapBytes) ==
    validateLoop_EmptyIsMissing(responseMapBytes, 1)

validateQueryResponse(responseMapBytes) == validateLoop(responseMapBytes, 1)

\* The error json.Unmarshal returns for an int field tagged ",string" whose
\* value is not the text of an integer.
ErrJSONQuotedInt == Err("json: cannot unmarshal into int")

RECURSIVE digitsValue(_, _)
digitsValue(digits, acc) ==
    IF digits = <<>> THEN acc ELSE digitsValue(Tail(digits), acc * 10 + (digits[1] - 48))

\* What json.Unmarshal does with the string s for an int field tagged
\* ",string": "null" leaves the field as it is, a text that begins with '-'
\* or a digit is parsed by strconv.ParseInt(s, 10, 64), anything else is an
\* error.  The numerals of this model have at most 9 digits, so none is out
\* of the range of 64 bits.
quotedInt(s) ==
    IF s = <<>> THEN [set |-> FALSE, num |-> 0, err |-> ErrJSONQuotedInt]
    ELSE IF s = <<110, 117, 108, 108>> THEN [set |-> FALSE, num |-> 0, err |-> NoErr]
    ELSE IF s[1] # 45 /\ ~IsDigit(s[1]) THEN [set |-> FALSE, num |-> 0, err |-> ErrJSONQuotedInt]
    ELSE LET digits == IF s[1] = 45 THEN Tail(s) ELSE s
         IN  IF digits = <<>> \/ \E i \in 1..Len(digits) : ~IsDigit(digits[i])
             THEN [set |-> FALSE, num |-> 0, err |-> ErrJSONQuotedInt]
             ELSE [set |-> TRUE,
                   num |-> IF s[1] = 45 THEN 0 - digitsValue(digits, 0)
                           ELSE digitsValue(digits, 0),
                   err |-> NoErr]

\* One entry of the plugin list: the name mapped to the version.
pluginEntry(plugin) ==
    LET pluginSplit == Split(plugin, <<32>>)
    IN  pluginSplit[1] :> (IF Len(pluginSplit) = 1 THEN <<>> ELSE pluginSplit[2])

packagePluginSection_SplitsEverySeparator(pluginSection, fullQuery) ==
    IF Len(pluginSection) = 0 THEN fullQuery
    ELSE LET pluginSectionSplit == Split(pluginSection, <<58, 32>>)
             serverModName == pluginSectionSplit[1]
         IN  IF Len(pluginSectionSplit) = 1
             THEN [fullQuery EXCEPT !.ModInfo.Type = serverModName]
             ELSE LET pluginString == pluginSectionSplit[2]
                      pluginStringSplit == Split(pluginString, <<59, 32>>)
                      pluginList ==
                          IF pluginString = <<>> THEN <<>>
                          ELSE [i \in 1..Len(pluginStringSplit) |->
                                   pluginEntry(pluginStringSplit[i])]
                  IN  [fullQuery EXCEPT !.ModInfo.Type = serverModName,
                                        !.ModInfo.ModList = Slice(pluginList)]

packagePluginSection(pluginSection, fullQuery) ==
    IF Len(pluginSection) = 0 THEN fullQuery
    ELSE LET pluginSectionSplit == SplitN2(pluginSection, <<58, 32>>)
             serverModName == pluginSectionSplit[1]
         IN  IF Len(pluginSectionSplit) = 1
             THEN [fullQuery EXCEPT !.ModInfo.Type = serverModName]
             ELSE LET pluginString == pluginSectionSplit[2]
                      pluginStringSplit == Split(pluginString, <<59, 32>>)
                      pluginList ==
                          IF pluginString = <<>> THEN <<>>
                          ELSE [i \in 1..Len(pluginStringSplit) |->
                                   pluginEntry(pluginStringSplit[i])]
                  IN  [fullQuery EXCEPT !.ModInfo.Type = serverModName,
                                        !.ModInfo.ModList = Slice(pluginList)]

\* The value of a string field of keyValueInfo.
fieldString(doc, i) == unmarshalField(doc, verifyResponseFields[i].name).value

packageKeyValueSection(responseMapBytes, fullQuery) ==
    LET quoted(i) ==
            LET field == unmarshalField(responseMapBytes, verifyResponseFields[i].name)
            IN  IF field.isNil THEN [set |-> FALSE, num |-> 0, err |-> NoErr]
                ELSE quotedInt(field.value)
        Maxplayers == quoted(8)
        Numplayers == quoted(7)
    IN  IF Maxplayers.err # NoErr \/ Numplayers.err # NoErr
        THEN [fullQuery |-> fullQuery, err |-> ErrJSONQuotedInt]
        ELSE [fullQuery |->
                  packagePluginSection(
                      fieldString(responseMapBytes, 5),
                      [fullQuery EXCEPT !.Players.Max = Maxplayers.num,
                                        !.Players.Online = Numplayers.num,
                                        !.Description = fieldString(responseMapBytes, 1),
                                        !.GameType = fieldString(responseMapBytes, 2),
                                        !.GameID = fieldString(responseMapBytes, 3),
                                        !.MapName = fieldString(responseMapBytes, 6),
                                        !.Version.Name = fieldString(responseMapBytes, 4)]),
              err |-> NoErr]

\* The loop of packagePlayerSection from byte i on.
RECURSIVE playerLoop(_, _, _, _)
playerLoop(playerSection, i, playerList, playerString) ==
    IF i > Len(playerSection) THEN playerList
    ELSE IF playerSection[i] = 0
         THEN IF Len(playerString) = 0 THEN playerList
              ELSE playerLoop(playerSection, i + 1, Append(playerList, playerString), <<>>)
         ELSE playerLoop(playerSection, i + 1, playerList,
                         Append(playerString, playerSection[i]))

\* The loop with the empty name passed over and not ending the list.
RECURSIVE playerLoop_SkipsEmptyNames(_, _, _, _)
playerLoop_SkipsEmptyNames(playerSection, i, playerList, playerString) ==
    IF i > Len(playerSection) THEN playerList
    ELSE IF playerSection[i] = 0
         THEN IF Len(playerString) = 0
              THEN playerLoop_SkipsEmptyNames(playerSection, i + 1, playerList, <<>>)
              ELSE playerLoop_SkipsEmptyNames(playerSection, i + 1,
                                              Append(playerList, playerString), <<>>)
         ELSE playerLoop_SkipsEmptyNames(playerSection, i + 1, playerList,
                                         Append(playerString, playerSection[i]))

packagePlayerSection_SkipsEmptyNames(playerSection, fullQuery) ==
    IF Len(playerSection) < 4 THEN fullQuery
    ELSE [fullQuery EXCEPT !.Players.PlayerList =
              Slice(playerLoop_SkipsEmptyNames(playerSection, 1, <<>>, <<>>))]

packagePlayerSection(playerSection, fullQuery) ==
    IF Len(playerSection) < 4 THEN fullQuery
    ELSE [fullQuery EXCEPT !.Players.PlayerList = Slice(playerLoop(playerSection, 1, <<>>, <<>>))]

\* packageFullQueryResponse behind the split of the response.
packageSections(fullQuery, keyValueSection, playerSection) ==
    LET parsed == parseKeyValueSection(keyValueSection)
        valid == validateQueryResponse(parsed.responseMapBytes)
        packaged == packageKeyValueSection(parsed.responseMapBytes, fullQuery)
    IN  IF parsed.err # NoErr THEN [status |-> ZeroFullQueryResponse, err |-> parsed.err]
        ELSE IF valid # NoErr THEN [status |-> ZeroFullQueryResponse, err |-> valid]
        ELSE IF packaged.err # NoErr THEN [status |-> ZeroFullQueryResponse, err |-> packaged.err]
        ELSE [status |-> packagePlayerSection(playerSection, packaged.fullQuery), err |-> NoErr]

packageFullQueryResponse_AtLeastTwoParts(serverIP, port, lat, resp) ==
    LET fullQuery == [ZeroFullQueryResponse EXCEPT !.IP = serverIP, !.Port = port,
                                                   !.Latency = lat]
        splitResponse == Split(resp, playerToken)
    IN  IF Len(splitResponse) < 2
        THEN [status |-> ZeroFullQueryResponse, err |-> ErrAbsentPlayerToken]
        ELSE packageSections(fullQuery, splitResponse[1], splitResponse[2])

packageFullQueryResponse(serverIP, port, lat, resp) ==
    LET fullQuery == [ZeroFullQueryResponse EXCEPT !.IP = serverIP, !.Port = port,
                                                   !.Latency = lat]
        splitResponse == Split(resp, playerToken)
    IN  IF Len(splitResponse) # 2
        THEN [status |-> ZeroFullQueryResponse, err |-> ErrAbsentPlayerToken]
        ELSE packageSections(fullQuery, splitResponse[1], splitResponse[2])

(***************************************************************************)
(* Values of the variables a behaviour does not use.                       *)
(***************************************************************************)
NoJSON == [top |-> "none"]

NoPong == <<>>

NoResult == [err |-> NoErr]

\* A behaviour that applies a parser to bytes opens no connection.
\* The source of math/rand before any call has seeded it.
Unseeded == [seed |-> 0, draws |-> 0]

NoNetwork ==
    /\ con = "none"
    /\ wire = <<>>
    /\ ops = <<>>
    /\ sizePrefix = <<>>
    /\ responseSize = int(0)
    /\ latency = 0
    /\ sessionID = <<>>
    /\ challengeToken = <<>>
    /\ randSource = Unseeded

(***************************************************************************)
(* SpecFormat: formatStatusResponse applied to a payload.                  *)
(***************************************************************************)
\* Bytes a framing can tell apart: a terminating and a continuing varint byte
\* with group 0 and with group 2.
FrameBytes == {0, 2, 128, 130}

InitFormat ==
    /\ call = "formatStatusResponse"
    /\ pc = "call"
    /\ response \in SeqsUpTo(FrameBytes, MaxFrameLen)
    /\ json = NoJSON
    /\ pong = NoPong
    /\ result = NoResult
    /\ NoNetwork

FormatStatusResponse ==
    /\ call = "formatStatusResponse"
    /\ pc = "call"
    /\ result' = formatStatusResponse(response)
    /\ pc' = "done"
    /\ UNCHANGED <<call, response, json, pong>>
    /\ UNCHANGED netvars

NextFormat == FormatStatusResponse

SpecFormat == InitFormat /\ [][NextFormat]_vars

(***************************************************************************)
(* SpecPackage: packageStatusResponse applied to a payload and the JSON    *)
(* document its body spells.                                               *)
(***************************************************************************)
\* A well-framed payload (state ID, the length 2, a body of two bytes), one
\* whose declared length is wrong and one that is too short.
PackageFrames == {<<0, 2, 123, 125>>, <<0, 3, 123, 125>>, <<0, 1, 48>>}

InitPackage ==
    /\ call = "packageStatusResponse"
    /\ pc = "call"
    /\ response \in PackageFrames
    /\ json \in IF formatStatusResponse(response).err = NoErr
                THEN Documents ELSE {NotAnObject("invalid")}
    /\ pong = NoPong
    /\ result = NoResult
    /\ NoNetwork

PackageStatusResponse ==
    /\ call = "packageStatusResponse"
    /\ pc = "call"
    /\ \E lat \in {1, 40} :
           result' = packageStatusResponse("203.0.113.7", 25565, lat, response, json)
    /\ pc' = "done"
    /\ UNCHANGED <<call, response, json, pong>>
    /\ UNCHANGED netvars

NextPackage == PackageStatusResponse

SpecPackage == InitPackage /\ [][NextPackage]_vars

(***************************************************************************)
(* SpecLegacy: packageLegacyStatusResponse applied to a response.          *)
(***************************************************************************)
\* fields joined by sep.
RECURSIVE Join(_, _)
Join(fields, sep) ==
    IF fields = <<>> THEN <<>>
    ELSE IF Len(fields) = 1 THEN fields[1]
    ELSE fields[1] \o sep \o Join(Tail(fields), sep)

\* The 9 bytes in front of a legacy response: 0xFF, the length, and the
\* UTF-16 characters of the section sign, '1' and a null.
LegacyHeader == <<255, 0, 35, 0, 167, 0, 49, 0, 0>>

\* Texts of a numeric field: 7, -12, +3, the largest 32-bit integer, the
\* integer above it, the empty text and a text that is no number.
NumberTexts ==
    {<<55>>, <<45, 49, 50>>, <<43, 51>>, <<50, 49, 52, 55, 52, 56, 51, 54, 52, 55>>,
     <<50, 49, 52, 55, 52, 56, 51, 54, 52, 56>>, <<>>, <<49, 46, 56>>}

\* Texts of a text field: empty, "Ab", and "A", a lone null, "b".
NameTexts == {<<>>, <<65, 98>>, <<65, 0, 98>>}

\* The lists of n fields from position i on; the first, fourth and fifth
\* field are texts of numbers.
RECURSIVE FieldListsFrom(_, _)
FieldListsFrom(i, n) ==
    IF i > n THEN {<<>>}
    ELSE {<<t>> \o rest : t \in (IF i \in {1, 4, 5} THEN NumberTexts ELSE NameTexts),
                          rest \in FieldListsFrom(i + 1, n)}

LegacyFieldLists(n) == FieldListsFrom(1, n)

LegacyResponses ==
    {SubSeq(LegacyHeader, 1, k) : k \in 0..legacyHeaderSize}
    \cup {LegacyHeader \o raw : raw \in SeqsUpTo({0, 49}, MaxLegacyRaw)}
    \cup UNION {{LegacyHeader \o Join(f, <<0, 0>>) \o end :
                    f \in LegacyFieldLists(n), end \in {<<>>, <<0, 0>>}} :
                n \in 1..MaxLegacyFields}

InitLegacy ==
    /\ call = "packageLegacyStatusResponse"
    /\ pc = "call"
    /\ response \in LegacyResponses
    /\ json = NoJSON
    /\ pong = NoPong
    /\ result = NoResult
    /\ NoNetwork

PackageLegacyStatusResponse ==
    /\ call = "packageLegacyStatusResponse"
    /\ pc = "call"
    /\ \E lat \in {1, 40} :
           result' = packageLegacyStatusResponse("203.0.113.7", 25565, lat, response)
    /\ pc' = "done"
    /\ UNCHANGED <<call, response, json, pong>>
    /\ UNCHANGED netvars

NextLegacy == PackageLegacyStatusResponse

SpecLegacy == InitLegacy /\ [][NextLegacy]_vars

(***************************************************************************)
(* SpecBasic: packageBasicQueryResponse applied to a response.             *)
(***************************************************************************)
\* The 5 bytes in front of a query response: the type and the session ID.
BasicHeader == <<0, 1, 2, 3, 4>>

\* The lists of n fields from position i on; the fourth and fifth field are
\* texts of numbers, the others "" or "Ab".
RECURSIVE BasicFieldsFrom(_, _)
BasicFieldsFrom(i, n) ==
    IF i > n THEN {<<>>}
    ELSE {<<t>> \o rest : t \in (IF i \in {4, 5} THEN NumberTexts ELSE {<<>>, <<65, 98>>}),
                          rest \in BasicFieldsFrom(i + 1, n)}

\* Truncated headers, every sequence of nulls and '1' up to a length behind
\* the header, and lists of fields separated by a null, with and without
\* the null behind the last field.
BasicResponses ==
    {SubSeq(BasicHeader, 1, k) : k \in 0..basicHeaderSize}
    \cup {BasicHeader \o raw : raw \in SeqsUpTo({0, 49}, MaxBasicRaw)}
    \cup UNION {{BasicHeader \o Join(f, <<0>>) \o end :
                    f \in BasicFieldsFrom(1, n), end \in {<<>>, <<0>>}} :
                n \in 1..MaxBasicFields}

InitBasic ==
    /\ call = "packageBasicQueryResponse"
    /\ pc = "call"
    /\ response \in BasicResponses
    /\ json = NoJSON
    /\ pong = NoPong
    /\ result = NoResult
    /\ NoNetwork

PackageBasicQueryResponse ==
    /\ call = "packageBasicQueryResponse"
    /\ pc = "call"
    /\ \E lat \in {1, 40} :
           result' = packageBasicQueryResponse("203.0.113.7", 25565, lat, response)
    /\ pc' = "done"
    /\ UNCHANGED <<call, response, json, pong>>
    /\ UNCHANGED netvars

NextBasic == PackageBasicQueryResponse

SpecBasic == InitBasic /\ [][NextBasic]_vars

(***************************************************************************)
(* SpecFull: packageFullQueryResponse applied to a response.               *)
(***************************************************************************)
\* The 16 bytes in front of the key-value section: the type, the session ID
\* and the padding "splitnum", 0, 128, 0.
FullHeader == <<0, 1, 2, 3, 4, 115, 112, 108, 105, 116, 110, 117, 109, 0, 128, 0>>

\* How a response spells the key of a field: not at all, in lower case, in
\* capitals, or in lower case with an empty value.
KeyKinds == {"lower", "absent", "upper", "empty"}

upperBytes(s) == [i \in 1..Len(s) |-> IF s[i] \in 97..122 THEN s[i] - 32 ELSE s[i]]

\* The spellings of the 8 keys in which at most MaxOddKeys are not the plain
\* lower-case key.
KeySpellings ==
    {spelling \in [1..Len(verifyResponseFields) -> KeyKinds] :
        Cardinality({i \in 1..Len(verifyResponseFields) : spelling[i] # "lower"})
            <= MaxOddKeys}

PlainSpelling == [i \in 1..Len(verifyResponseFields) |-> "lower"]

\* Values of numplayers and maxplayers: "7", "20", "-1", "007", "", "x",
\* "null", "+3".
QueryNumberTexts ==
    {<<55>>, <<50, 48>>, <<45, 49>>, <<48, 48, 55>>, <<>>, <<120>>,
     <<110, 117, 108, 108>>, <<43, 51>>}

\* Values of plugins: none, "Ab", "Ab: C 1; D".
QueryPluginTexts == {<<>>, <<65, 98>>, <<65, 98, 58, 32, 67, 32, 49, 59, 32, 68>>}

\* The values of the 8 keys of a well-formed response.
PlainValues ==
    <<<<65, 98>>, <<83, 77, 80>>, <<77, 67>>, <<49, 46, 56>>, <<>>, <<119>>, <<55>>, <<50, 48>>>>

\* The key-value pairs from field i on, each key and each value with its null.
RECURSIVE keyValuePairs(_, _, _)
keyValuePairs(spelling, values, i) ==
    IF i > Len(verifyResponseFields) THEN <<>>
    ELSE LET lower == foldBytes(verifyResponseFields[i].name)
             pair == CASE spelling[i] = "absent" -> <<>>
                       [] spelling[i] = "lower" -> lower \o <<0>> \o values[i] \o <<0>>
                       [] spelling[i] = "upper" -> upperBytes(lower) \o <<0>> \o values[i] \o <<0>>
                       [] spelling[i] = "empty" -> lower \o <<0, 0>>
         IN  pair \o keyValuePairs(spelling, values, i + 1)

keyValueSectionOf(spelling, values) == FullHeader \o keyValuePairs(spelling, values, 1)

\* Player sections: none, "Ab", "Ab" and "Cd" with the closing null, a section
\* that begins with a null, one with no null, and one too short to be read.
PlayerSections ==
    {<<>>, <<65, 98, 0, 0>>, <<65, 98, 0, 67, 100, 0, 0>>, <<0, 65, 98, 0>>,
     <<65, 98, 67, 100>>, <<65, 0, 0>>}

\* A key-value section and a player section with the player token once,
\* not at all, twice, twice with the null between them shared, and cut short.
Arrangements(keyValueSection, playerSection) ==
    {keyValueSection \o playerToken \o playerSection,
     keyValueSection \o playerSection,
     keyValueSection \o playerToken \o playerSection \o playerToken \o playerSection,
     keyValueSection \o playerToken \o Tail(playerToken) \o playerSection,
     keyValueSection \o SubSeq(playerToken, 1, Len(playerToken) - 1) \o playerSection}

FullResponses ==
    {keyValueSectionOf(spelling, PlainValues) \o playerToken \o <<65, 98, 0, 0>> :
        spelling \in KeySpellings}
    \cup UNION {Arrangements(keyValueSection, playerSection) :
                    keyValueSection \in {keyValueSectionOf(PlainSpelling, PlainValues),
                                         FullHeader, SubSeq(FullHeader, 1, 15), <<>>},
                    playerSection \in PlayerSections}
    \cup {keyValueSectionOf(PlainSpelling,
                            [PlainValues EXCEPT ![5] = plugins, ![7] = num, ![8] = max])
              \o playerToken \o <<65, 98, 0, 0>> :
          plugins \in QueryPluginTexts, num \in QueryNumberTexts, max \in QueryNumberTexts}

InitFull ==
    /\ call = "packageFullQueryResponse"
    /\ pc = "call"
    /\ response \in FullResponses
    /\ json = NoJSON
    /\ pong = NoPong
    /\ result = NoResult
    /\ NoNetwork

PackageFullQueryResponse ==
    /\ call = "packageFullQueryResponse"
    /\ pc = "call"
    /\ \E lat \in {1, 40} :
           result' = packageFullQueryResponse("203.0.113.7", 25565, lat, response)
    /\ pc' = "done"
    /\ UNCHANGED <<call, response, json, pong>>
    /\ UNCHANGED netvars

NextFull == PackageFullQueryResponse

SpecFull == InitFull /\ [][NextFull]_vars

(***************************************************************************)
(* SpecPlugin: packagePluginSection applied to a plugins value.            *)
(***************************************************************************)
\* 'A', ' ', ':' and ';'.
PluginBytes == {65, 32, 58, 59}

\* Entries of a plugin list: "A", "A 1", "A 1 2", "", " " and "A ".
PluginEntryTexts ==
    {<<65>>, <<65, 32, 49>>, <<65, 32, 49, 32, 50>>, <<>>, <<32>>, <<65, 32>>}

\* Every text of PluginBytes up to a length, and a mod name with ": " and a
\* list of entries separated by "; ".
PluginSections ==
    SeqsUpTo(PluginBytes, MaxPluginLen)
    \cup UNION {{<<65, 98>> \o <<58, 32>> \o Join(entries, <<59, 32>>) :
                    entries \in [1..n -> PluginEntryTexts]} : n \in 1..MaxPluginEntries}

InitPlugin ==
    /\ call = "packagePluginSection"
    /\ pc = "call"
    /\ response \in PluginSections
    /\ json = NoJSON
    /\ pong = NoPong
    /\ result = NoResult
    /\ NoNetwork

PackagePluginSection ==
    /\ call = "packagePluginSection"
    /\ pc = "call"
    /\ result' = [status |-> packagePluginSection(response, ZeroFullQueryResponse),
                  err |-> NoErr]
    /\ pc' = "done"
    /\ UNCHANGED <<call, response, json, pong>>
    /\ UNCHANGED netvars

NextPlugin == PackagePluginSection

SpecPlugin == InitPlugin /\ [][NextPlugin]_vars

(***************************************************************************)
(* SpecPlayer: packagePlayerSection applied to a player section.           *)
(***************************************************************************)
\* Every section of nulls, 'A' and 'B' up to a length.
PlayerSectionsRaw == SeqsUpTo({0, 65, 66}, MaxPlayerLen)

InitPlayer ==
    /\ call = "packagePlayerSection"
    /\ pc = "call"
    /\ response \in PlayerSectionsRaw
    /\ json = NoJSON
    /\ pong = NoPong
    /\ result = NoResult
    /\ NoNetwork

PackagePlayerSection ==
    /\ call = "packagePlayerSection"
    /\ pc = "call"
    /\ result' = [status |-> packagePlayerSection(response, ZeroFullQueryResponse),
                  err |-> NoErr]
    /\ pc' = "done"
    /\ UNCHANGED <<call, response, json, pong>>
    /\ UNCHANGED netvars

NextPlayer == PackagePlayerSection

SpecPlayer == InitPlayer /\ [][NextPlayer]_vars

(***************************************************************************)
(* SpecVarInt: readVarInt applied to bytes, and to what writeVarInt wrote. *)
(***************************************************************************)
\* The ints of at most 35 bits whose low 28 bits are one of a few values
\* around the ends of the 7-bit groups.
VarIntNumbers ==
    {[hi |-> h, lo |-> l] :
        h \in 0..(Pow2(7) - 1),
        l \in {0, 1, 127, 128, 129, 300, Pow2(14) - 1, Pow2(14), Pow2(21) - 1, Pow2(21),
               Pow2(28) - 128, Pow2(28) - 1}}

\* Every sequence of the bytes 0, 127, 128, 255 up to a length.
VarInts == SeqsUpTo({0, 127, 128, 255}, MaxVarIntLen)

InitVarInt ==
    /\ \/ call = "writeVarInt" /\ responseSize \in VarIntNumbers /\ sizePrefix = <<>>
       \/ call = "readVarInt" /\ responseSize = int(0) /\ sizePrefix \in VarInts
    /\ pc = "call"
    /\ response = <<>>
    /\ json = NoJSON
    /\ pong = NoPong
    /\ result = NoResult
    /\ con = "none"
    /\ wire = <<>>
    /\ ops = <<>>
    /\ latency = 0
    /\ sessionID = <<>>
    /\ challengeToken = <<>>
    /\ randSource = Unseeded

WriteVarInt ==
    /\ call = "writeVarInt"
    /\ pc = "call"
    /\ sizePrefix' = writeVarInt(responseSize)
    /\ pc' = "written"
    /\ UNCHANGED <<call, randSource, sessionID, challengeToken, response, json, pong, result, con, wire, ops, responseSize, latency>>

ReadVarInt ==
    /\ \/ call = "writeVarInt" /\ pc = "written"
       \/ call = "readVarInt" /\ pc = "call"
    /\ result' = readVarInt(sizePrefix)
    /\ pc' = "done"
    /\ UNCHANGED <<call, randSource, sessionID, challengeToken, response, json, pong, con, wire, ops, sizePrefix, responseSize, latency>>

NextVarInt == WriteVarInt \/ ReadVarInt

SpecVarInt == InitVarInt /\ [][NextVarInt]_vars

(***************************************************************************)
(* SpecStatus: one call of Status or of Ping against a server.             *)
(*                                                                         *)
(* The server is the stream of bytes it sends over the connection (wire)   *)
(* and the JSON document the body of its payload spells (json). A Read      *)
(* into a buffer of n bytes returns between 1 and n of the bytes that are  *)
(* left, or fails; a Write or the Dial succeeds or fails.                  *)
(***************************************************************************)
recvBufferSize == 4096

ZeroStatusBetaResponse ==
    [IP |-> "", Port |-> 0, Latency |-> 0, Description |-> <<>>,
     Players |-> [Max |-> 0, Online |-> 0]]

pongSize == 10

ErrDial == Err("net.DialTimeout")

ErrWrite == Err("net.Conn.Write")

ErrRead == Err("net.Conn.Read")

\* An entry of ops; data are the bytes of a Write, err the error the
\* operation returned.
Op(name) == [op |-> name, data |-> <<>>, err |-> NoErr]

WriteOp(data) == [op |-> "Write", data |-> data, err |-> NoErr]

\* The operations issued, the last of which returned err when err is the
\* error of the network.
Issued(issued, err) ==
    IF err \in {ErrDial, ErrWrite, ErrRead}
    THEN [issued EXCEPT ![Len(issued)].err = err]
    ELSE issued

\* resetConnection, deferred by Status to its return: on a connection that
\* con.Close() already closed, SetLinger and Close fail and change nothing.
ResetOps == <<Op("SetLinger(0)"), Op("Close")>>

resetConnection_Graceful(c) == IF c = "open" THEN "closed" ELSE c

resetConnection(c) == IF c = "open" THEN "reset" ELSE c

isQuery == call \in {"BasicQuery", "FullQuery"}

\* The call deferred by the handler after the Dial: resetConnection(con) in
\* Status, StatusLegacy and StatusBeta, con.Close() in BasicQuery and FullQuery.
DeferredOps == IF isQuery THEN <<Op("Close")>> ELSE ResetOps

deferred_OnSuccessOnly(c) == c

deferred(c) == IF isQuery THEN "closed" ELSE resetConnection(c)

\* The zero value T{} of the handler's response type T.
ZeroResponse ==
    CASE call \in {"Status", "Ping"} -> ZeroStatusResponse
      [] call = "StatusLegacy" -> ZeroStatusLegacyResponse
      [] call = "StatusBeta" -> ZeroStatusBetaResponse
      [] call = "BasicQuery" -> ZeroBasicQueryResponse
      [] call = "FullQuery" -> ZeroFullQueryResponse

\* What the handler returns.
Returned(status, err) == [status |-> status, err |-> err]

\* Where the handler returns to: Status called by Ping returns to Ping, any
\* other handler to the caller.
returnTo == IF call = "Ping" THEN "StatusReturned" ELSE "done"

bytesEqual_LengthOnly(a, b) == Len(a) = Len(b)

\* bytes.Equal.
bytesEqual(a, b) == a = b

\* The first k bytes of the wire in a zeroed buffer of n bytes.
ReadInto(n, k) == [i \in 1..n |-> IF i <= k THEN wire[i] ELSE 0]

Min(a, b) == IF a < b THEN a ELSE b

\* The server's name and port of the call, "mc" and 25565.
ServerName == <<109, 99>>

\* Replies: the pong the server sends after the payload.
PongReplies ==
    {pingPacket} \cup {[pingPacket EXCEPT ![i] = b] : i \in 1..10, b \in {0, 7, 9}}
        \cup {SubSeq(pingPacket, 1, k) : k \in {0, 4}}

AllOk ==
    [top |-> "object", description |-> "string",
     players |-> [kind |-> "object", max |-> "ok", online |-> "ok", sample |-> "ok"],
     version |-> [kind |-> "object", name |-> "ok", protocol |-> "ok"],
     favicon |-> "ok", modinfo |-> "absent"]

\* The payloads the server sends, each with the document its body spells.
StatusReplies ==
    {[payload |-> <<0, 2, 123, 125>>, json |-> AllOk],
     [payload |-> <<0, 2, 123, 125>>, json |-> [AllOk EXCEPT !.players.online = "absent"]],
     [payload |-> <<0, 3, 123, 125>>, json |-> NotAnObject("invalid")]}

\* The size prefix the server sends before a payload: its length, its length
\* in two bytes, a length that is too large, and six continuation bytes.
SizePrefixes(payload) ==
    {writeVarInt(int(Len(payload))), <<128 + Len(payload), 0>>,
     writeVarInt(int(Len(payload) + 2)),
     <<128, 128, 128, 128, 128, 128, 0>>}

ServerScripts ==
    UNION {{[wire |-> prefix \o r.payload \o pg, json |-> r.json] :
                prefix \in SizePrefixes(r.payload), pg \in PongReplies} :
           r \in StatusReplies}

InitStatus ==
    /\ call \in {"Status", "Ping"}
    /\ pc = "Start"
    /\ \E script \in ServerScripts : wire = script.wire /\ json = script.json
    /\ response = <<>>
    /\ pong = NoPong
    /\ result = NoResult
    /\ con = "none"
    /\ ops = <<>>
    /\ sizePrefix = <<>>
    /\ responseSize = int(0)
    /\ latency = 0
    /\ sessionID = <<>>
    /\ challengeToken = <<>>
    /\ randSource = Unseeded

\* The call returns err after the connection was opened.
Fail(err, issued) ==
    /\ result' = Returned(ZeroResponse, err)
    /\ ops' = ops \o Issued(issued, err) \o DeferredOps
    /\ con' = deferred(con)
    /\ pc' = returnTo

\* net.DialTimeout; on failure the handler returns before the defer.
Dial ==
    /\ pc = "Start"
    /\ \E ok \in BOOLEAN :
        IF ok
        THEN /\ ops' = Append(ops, Op("DialTimeout"))
             /\ con' = "open"
             /\ pc' = "Connected"
             /\ UNCHANGED result
        ELSE /\ ops' = ops \o Issued(<<Op("DialTimeout")>>, ErrDial)
             /\ result' = Returned(ZeroResponse, ErrDial)
             /\ pc' = returnTo
             /\ UNCHANGED con
    /\ UNCHANGED <<call, randSource, sessionID, challengeToken, response, json, pong, wire, sizePrefix, responseSize, latency>>

\* initiateStatusRequest: one Write of the handshake followed by the request.
InitiateStatusRequest ==
    /\ call \in {"Status", "Ping"}
    /\ pc = "Connected"
    /\ LET packet == createStatusHandshakePacket(ServerName, 25565) \o requestPacket
           issued == <<Op("SetDeadline"), WriteOp(packet)>>
       IN  \E ok \in BOOLEAN :
            IF ok
            THEN /\ ops' = ops \o issued
                 /\ pc' = "HandshakeSent"
                 /\ UNCHANGED <<result, con>>
            ELSE Fail(ErrWrite, issued)
    /\ UNCHANGED <<call, randSource, sessionID, challengeToken, response, json, pong, wire, sizePrefix, responseSize, latency>>

\* readResponseSize: one pass of its loop, a Read of one byte; the deadline
\* is set once, before the first pass. The byte that ends the varint ends the
\* loop, readVarInt decodes the bytes, and readStatusResponse sets the
\* deadline of its own loop.
ReadResponseSize ==
    /\ pc = "HandshakeSent"
    /\ LET issued == (IF sizePrefix = <<>> THEN <<Op("SetDeadline")>> ELSE <<>>)
                         \o <<Op("Read")>>
       IN  \E ok \in (IF wire = <<>> THEN {FALSE} ELSE BOOLEAN) :
            IF ~ok
            THEN /\ Fail(ErrRead, issued)
                 /\ UNCHANGED <<wire, sizePrefix, responseSize>>
            ELSE LET read == Append(sizePrefix, Head(wire))
                     decoded == readVarInt(read)
                 IN  /\ wire' = Tail(wire)
                     /\ sizePrefix' = read
                     /\ IF Head(wire) >= 128
                        THEN /\ ops' = ops \o issued
                             /\ UNCHANGED <<pc, result, con, responseSize>>
                        ELSE IF decoded.err # NoErr
                        THEN /\ Fail(decoded.err, issued)
                             /\ UNCHANGED responseSize
                        ELSE /\ responseSize' = decoded.number
                             /\ ops' = ops \o issued \o <<Op("SetDeadline")>>
                             /\ pc' = "SizePrefixRead"
                             /\ UNCHANGED <<result, con>>
    /\ UNCHANGED <<call, randSource, sessionID, challengeToken, response, json, pong, latency>>

ReadStatusResponse_SinglePass ==
    /\ pc = "SizePrefixRead"
    /\ IF response # <<>> \/ ~intLess(int(Len(response)), responseSize)
       THEN /\ pc' = "PayloadRead"
            /\ UNCHANGED <<result, con, ops, wire, response>>
       ELSE \E k \in 0..Min(recvBufferSize, Len(wire)) :
             IF k = 0
             THEN /\ Fail(ErrRead, <<Op("Read")>>)
                  /\ UNCHANGED <<wire, response>>
             ELSE /\ response' = response \o SubSeq(wire, 1, k)
                  /\ wire' = SubSeq(wire, k + 1, Len(wire))
                  /\ ops' = Append(ops, Op("Read"))
                  /\ UNCHANGED <<pc, result, con>>
    /\ UNCHANGED <<call, randSource, sessionID, challengeToken, json, pong, sizePrefix, responseSize, latency>>

\* readStatusResponse: one test of the condition of its loop, which ends the
\* loop when response holds at least responseSize bytes, and otherwise one
\* pass, a Read into 4096 bytes appended to response.
ReadStatusResponse ==
    /\ pc = "SizePrefixRead"
    /\ IF ~intLess(int(Len(response)), responseSize)
       THEN /\ pc' = "PayloadRead"
            /\ UNCHANGED <<result, con, ops, wire, response>>
       ELSE \E k \in 0..Min(recvBufferSize, Len(wire)) :
             IF k = 0
             THEN /\ Fail(ErrRead, <<Op("Read")>>)
                  /\ UNCHANGED <<wire, response>>
             ELSE /\ response' = response \o SubSeq(wire, 1, k)
                  /\ wire' = SubSeq(wire, k + 1, Len(wire))
                  /\ ops' = Append(ops, Op("Read"))
                  /\ UNCHANGED <<pc, result, con>>
    /\ UNCHANGED <<call, randSource, sessionID, challengeToken, json, pong, sizePrefix, responseSize, latency>>

\* calculateLatency, first half: the Write of the ping.
CalculateLatencyWrite ==
    /\ pc = "PayloadRead"
    /\ LET issued == <<Op("SetDeadline"), WriteOp(pingPacket)>>
       IN  \E ok \in BOOLEAN :
            IF ok
            THEN /\ ops' = ops \o issued
                 /\ pc' = "PingSent"
                 /\ UNCHANGED <<result, con>>
            ELSE Fail(ErrWrite, issued)
    /\ UNCHANGED <<call, randSource, sessionID, challengeToken, response, json, pong, wire, sizePrefix, responseSize, latency>>

\* calculateLatency, second half: one timed Read into the 10-byte buffer
\* pong, then the comparison with the ping.
CalculateLatencyRead ==
    /\ pc = "PingSent"
    /\ LET issued == <<Op("SetDeadline"), Op("Read")>>
       IN  \E k \in 0..Min(pongSize, Len(wire)) :
            IF k = 0
            THEN /\ Fail(ErrRead, issued)
                 /\ UNCHANGED <<wire, pong, latency>>
            ELSE /\ pong' = ReadInto(pongSize, k)
                 /\ wire' = SubSeq(wire, k + 1, Len(wire))
                 /\ \E elapsed \in {1, 40} : latency' = elapsed
                 /\ IF bytesEqual(pingPacket, pong')
                    THEN /\ ops' = ops \o issued
                         /\ pc' = "PongReceived"
                         /\ UNCHANGED <<result, con>>
                    ELSE Fail(ErrInvalidPong, issued)
    /\ UNCHANGED <<call, randSource, sessionID, challengeToken, response, json, sizePrefix, responseSize>>

\* con.Close(), packageStatusResponse and the return of Status.
PackageResponse ==
    /\ pc = "PongReceived"
    /\ LET packaged == packageStatusResponse("203.0.113.7", 25565, latency, response, json)
       IN  result' = Returned(packaged.status, packaged.err)
    /\ con' = "closed"
    /\ ops' = ops \o <<Op("Close")>> \o ResetOps
    /\ pc' = returnTo
    /\ UNCHANGED <<call, randSource, sessionID, challengeToken, response, json, pong, wire, sizePrefix, responseSize, latency>>

PingReturn_LatencyOfStatus ==
    /\ call = "Ping"
    /\ pc = "StatusReturned"
    /\ result' = [latency |-> result.status.Latency, err |-> result.err]
    /\ pc' = "done"
    /\ UNCHANGED <<call, response, json, pong>>
    /\ UNCHANGED netvars

\* Ping after its call of Status: -1 and the error of Status, or the Latency
\* of the status and no error.
PingReturn ==
    /\ call = "Ping"
    /\ pc = "StatusReturned"
    /\ result' = IF result.err # NoErr THEN [latency |-> -1, err |-> result.err]
                                       ELSE [latency |-> result.status.Latency, err |-> NoErr]
    /\ pc' = "done"
    /\ UNCHANGED <<call, response, json, pong>>
    /\ UNCHANGED netvars

NextStatus ==
    \/ Dial
    \/ InitiateStatusRequest
    \/ ReadResponseSize
    \/ ReadStatusResponse
    \/ CalculateLatencyWrite
    \/ CalculateLatencyRead
    \/ PackageResponse
    \/ PingReturn

SpecStatus == InitStatus /\ [][NextStatus]_vars

(***************************************************************************)
(* The requests of StatusLegacy, StatusBeta, BasicQuery and FullQuery.     *)
(***************************************************************************)
legacyRequestPacket == <<254, 1, 250>>

betaRequestPacket == 254

magicBytes == <<254, 253>>

handshakeByte == 9

statByte == 0

fullQueryPadding == <<0, 0, 0, 0>>

ErrShortChallengeToken == Err("ErrShortChallengeToken")

ErrAbsentChallengeTokenNullTerminator == Err("ErrAbsentChallengeTokenNullTerminator")

createQueryHandshakePacket(id) == Append(magicBytes, handshakeByte) \o id

createQueryRequestPacket_AlwaysPadded(id, token, isFullQuery) ==
    Append(magicBytes, statByte) \o id \o token \o fullQueryPadding

createQueryRequestPacket(id, token, isFullQuery) ==
    Append(magicBytes, statByte) \o id \o token
        \o (IF isFullQuery THEN fullQueryPadding ELSE <<>>)

\* The 4 big-endian bytes of w + 2^31 when high and of w otherwise, for w
\* from 0 to 2^31 - 1.
bigEndian(w, high) ==
    <<(w \div Pow2(24)) + (IF high THEN 128 ELSE 0), (w \div Pow2(16)) % 256,
      (w \div 256) % 256, w % 256>>

\* binary.BigEndian.PutUint32(b, uint32(v)) for the 64-bit v that is -n when
\* negate and n otherwise, n a 32-bit integer: v modulo 2^32.
PutUint32(n, negate) ==
    IF n = -2147483647 - 1 THEN bigEndian(0, TRUE)
    ELSE LET v == IF negate THEN -n ELSE n
         IN  IF v >= 0 THEN bigEndian(v, FALSE) ELSE bigEndian((2147483647 + v) + 1, TRUE)

cleanChallengeToken_TerminatorFirst(potentialChallengeToken) ==
    IF potentialChallengeToken # <<>> /\ potentialChallengeToken[Len(potentialChallengeToken)] # 0
    THEN [token |-> <<>>, err |-> ErrAbsentChallengeTokenNullTerminator]
    ELSE IF Len(potentialChallengeToken) < 7
    THEN [token |-> <<>>, err |-> ErrShortChallengeToken]
    ELSE [token |-> SelectSeq(SliceFrom(potentialChallengeToken, 5), LAMBDA b : b # 0),
          err |-> NoErr]

cleanChallengeToken(potentialChallengeToken) ==
    IF Len(potentialChallengeToken) < 7
    THEN [token |-> <<>>, err |-> ErrShortChallengeToken]
    ELSE LET stripped == SliceFrom(potentialChallengeToken, 5)
         IN  IF stripped[Len(stripped)] # 0
             THEN [token |-> <<>>, err |-> ErrAbsentChallengeTokenNullTerminator]
             ELSE [token |-> SelectSeq(stripped, LAMBDA b : b # 0), err |-> NoErr]

\* parseChallengeToken; panic is the run-time panic of challengeTokenString[0]
\* on the empty string.
parseChallengeToken(potentialChallengeToken) ==
    LET cleaned == cleanChallengeToken(potentialChallengeToken)
    IN  IF cleaned.err # NoErr THEN [token |-> <<>>, err |-> cleaned.err, panic |-> FALSE]
        ELSE IF cleaned.token = <<>> THEN [token |-> <<>>, err |-> NoErr, panic |-> TRUE]
        ELSE LET isNegativeChallengeToken == cleaned.token[1] = 45
                 challengeTokenString ==
                     IF isNegativeChallengeToken THEN Tail(cleaned.token) ELSE cleaned.token
                 parsed == ParseInt32(challengeTokenString)
             IN  IF parsed.err # NoErr
                 THEN [token |-> <<>>, err |-> parsed.err, panic |-> FALSE]
                 ELSE [token |-> PutUint32(parsed.num, isNegativeChallengeToken),
                       err |-> NoErr, panic |-> FALSE]

(***************************************************************************)
(* SpecHandlers: one call of any of the six entry points against a server. *)
(*                                                                         *)
(* Over TCP the server is the stream of bytes it sends, as in SpecStatus.  *)
(* Over UDP (BasicQuery, FullQuery) wire is the sequence of the datagrams  *)
(* it sends: a Read returns the next datagram, cut to the buffer.          *)
(***************************************************************************)
legacyBufferSize == 512

betaHeaderSize == 3

betaBufferSize == 32

challengeBufferSize == 32

queryBufferSize == 8192

\* rand.Seed(seed) on the global source.
randSeed(seed) == [seed |-> seed, draws |-> 0]

\* rand.Int() on the global source, as the 4 big-endian bytes of the low 32
\* bits of the number: the generator is a fixed function of the seed and of
\* the number of draws made since, here a mixing of the two.
randInt(source) ==
    LET x == (source.seed * 7919 + source.draws * 10473 + 12345) % 65536
    IN  <<(x * 3) % 256, x \div 256, (x * 5 + 1) % 256, x % 256>>

\* The source after a draw.
randNext(source) == [source EXCEPT !.draws = @ + 1]

createSessionID_Unmasked(randomInt) == randomInt

\* createSessionID after the seeding: 0x0F0F0F0F & rand.Int() in 4 bytes.
createSessionID(randomInt) == [i \in 1..4 |-> randomInt[i] % 16]

\* Legacy replies: five fields, three fields, and a reply of two bytes.
LegacyReplies ==
    {LegacyHeader \o Join(<<<<55>>, <<65, 98>>, <<65, 98>>, <<55>>, <<55>>>>, <<0, 0>>),
     LegacyHeader \o Join(<<<<55>>, <<65, 98>>, <<65, 98>>>>, <<0, 0>>),
     <<255, 0>>}

\* Beta replies: the kick byte, the length in 2 bytes and the characters; a
\* length of 2 with 4, 5 and 3 bytes behind it, a length of 0, and a length
\* of 256 with nothing behind it.
BetaReplies ==
    {<<255, 0, 2, 0, 65, 0, 98>>, <<255, 0, 2, 0, 65, 0, 98, 0>>, <<255, 0, 2, 0, 65, 0>>,
     <<255, 0, 0>>, <<255, 1, 0>>}

\* Challenge replies: "12", "-5", replies of 6 bytes with and without a
\* null at the end, "12" without its null, nulls alone, and "x".
ChallengeReplies ==
    {<<9, 0, 0, 0, 1>> \o text :
        text \in {<<49, 50, 0>>, <<45, 53, 0>>, <<0>>, <<49>>, <<49, 50>>, <<0, 0>>, <<120, 0>>}}

BasicReplies ==
    {BasicHeader \o Join(<<<<65, 98>>, <<65, 98>>, <<65, 98>>, <<55>>, <<55>>>>, <<0>>) \o <<0>>,
     BasicHeader \o <<65, 98, 0>>, <<0, 1>>}

FullReplies ==
    {keyValueSectionOf(PlainSpelling, PlainValues) \o playerToken \o <<65, 98, 0, 0>>,
     keyValueSectionOf(PlainSpelling, PlainValues), <<0, 1>>}

InitHandlers ==
    /\ call \in {"Status", "Ping", "StatusLegacy", "StatusBeta", "BasicQuery", "FullQuery"}
    /\ pc = "Start"
    /\ \/ /\ call \in {"Status", "Ping"}
          /\ \E script \in ServerScripts : wire = script.wire /\ json = script.json
       \/ /\ call = "StatusLegacy" /\ wire \in LegacyReplies /\ json = NoJSON
       \/ /\ call = "StatusBeta" /\ wire \in BetaReplies /\ json = NoJSON
       \/ /\ call = "BasicQuery" /\ json = NoJSON
          /\ \E c \in ChallengeReplies, r \in BasicReplies : wire = <<c, r>>
       \/ /\ call = "FullQuery" /\ json = NoJSON
          /\ \E c \in ChallengeReplies, r \in FullReplies : wire = <<c, r>>
    /\ response = <<>>
    /\ pong = NoPong
    /\ result = NoResult
    /\ con = "none"
    /\ ops = <<>>
    /\ sizePrefix = <<>>
    /\ responseSize = int(0)
    /\ latency = 0
    /\ sessionID = <<>>
    /\ challengeToken = <<>>
    /\ randSource = Unseeded

\* initiateRequest of StatusLegacy and StatusBeta: the Write of the request.
InitiateRequest ==
    /\ call \in {"StatusLegacy", "StatusBeta"}
    /\ pc = "Connected"
    /\ LET packet == IF call = "StatusLegacy" THEN legacyRequestPacket
                                              ELSE <<betaRequestPacket>>
           issued == <<Op("SetDeadline"), WriteOp(packet)>>
       IN  \E ok \in BOOLEAN :
            IF ok
            THEN /\ ops' = ops \o issued
                 /\ pc' = "RequestSent"
                 /\ UNCHANGED <<result, con>>
            ELSE Fail(ErrWrite, issued)
    /\ UNCHANGED <<call, randSource, response, json, pong, wire, sizePrefix, responseSize, latency,
                   sessionID, challengeToken>>

\* The Read alone timed from after its return: startTime taken behind the
\* Read.
ReadLegacyStatusResponse_TimerAfterRead ==
    /\ call = "StatusLegacy"
    /\ pc = "RequestSent"
    /\ LET issued == <<Op("SetDeadline"), Op("Read")>>
       IN  \E k \in 0..Min(legacyBufferSize, Len(wire)) :
            IF k = 0
            THEN /\ Fail(ErrRead, issued)
                 /\ UNCHANGED <<wire, response, latency>>
            ELSE /\ response' = SubSeq(wire, 1, k)
                 /\ wire' = SubSeq(wire, k + 1, Len(wire))
                 /\ \E elapsed \in {1, 40} : latency' = elapsed
                 /\ ops' = ops \o issued \o <<Op("Now"), Op("Since")>>
                 /\ pc' = "ResponseRead"
                 /\ UNCHANGED <<result, con>>
    /\ UNCHANGED <<call, randSource, json, pong, sizePrefix, responseSize, sessionID, challengeToken>>

\* readLegacyStatusResponse: one Read into a buffer of 512 bytes, timed from
\* startTime := time.Now() right before it to time.Since(startTime) right
\* after it.
ReadLegacyStatusResponse ==
    /\ call = "StatusLegacy"
    /\ pc = "RequestSent"
    /\ LET issued == <<Op("SetDeadline"), Op("Now"), Op("Read")>>
       IN  \E k \in 0..Min(legacyBufferSize, Len(wire)) :
            IF k = 0
            THEN /\ Fail(ErrRead, issued)
                 /\ UNCHANGED <<wire, response, latency>>
            ELSE /\ response' = SubSeq(wire, 1, k)
                 /\ wire' = SubSeq(wire, k + 1, Len(wire))
                 /\ \E elapsed \in {1, 40} : latency' = elapsed
                 /\ ops' = ops \o issued \o <<Op("Since")>>
                 /\ pc' = "ResponseRead"
                 /\ UNCHANGED <<result, con>>
    /\ UNCHANGED <<call, randSource, json, pong, sizePrefix, responseSize, sessionID, challengeToken>>

PackageLegacyResponse_KeepsLatency ==
    /\ call = "StatusLegacy"
    /\ pc = "ResponseRead"
    /\ LET packaged == packageLegacyStatusResponse("203.0.113.7", 25565, latency, response)
       IN  result' = IF packaged.err # NoErr
                     THEN [status |-> [ZeroStatusLegacyResponse EXCEPT !.Latency = latency],
                           err |-> packaged.err]
                     ELSE [status |-> packaged.status, err |-> NoErr]
    /\ con' = "closed"
    /\ ops' = ops \o <<Op("Close")>> \o DeferredOps
    /\ pc' = "done"
    /\ UNCHANGED <<call, randSource, response, json, pong, wire, sizePrefix, responseSize, latency,
                   sessionID, challengeToken>>

\* con.Close(), packageLegacyStatusResponse and the return of StatusLegacy.
PackageLegacyResponse ==
    /\ call = "StatusLegacy"
    /\ pc = "ResponseRead"
    /\ LET packaged == packageLegacyStatusResponse("203.0.113.7", 25565, latency, response)
       IN  result' = IF packaged.err # NoErr
                     THEN [status |-> ZeroStatusLegacyResponse, err |-> packaged.err]
                     ELSE [status |-> packaged.status, err |-> NoErr]
    /\ con' = "closed"
    /\ ops' = ops \o <<Op("Close")>> \o DeferredOps
    /\ pc' = "done"
    /\ UNCHANGED <<call, randSource, response, json, pong, wire, sizePrefix, responseSize, latency,
                   sessionID, challengeToken>>

\* readBetaStatusResponseSize: one Read into a buffer of 3 bytes, with no
\* deadline of its own, then the deadline readBetaStatusResponse sets for
\* its loop.
ReadBetaStatusResponseSize_NotDoubled ==
    /\ call = "StatusBeta"
    /\ pc = "RequestSent"
    /\ \E k \in 0..Min(betaHeaderSize, Len(wire)) :
        IF k = 0
        THEN /\ Fail(ErrRead, <<Op("Read")>>)
             /\ UNCHANGED <<wire, sizePrefix, responseSize>>
        ELSE LET header == ReadInto(betaHeaderSize, k)
                 size == header[2] * 256 + header[3]
             IN  /\ sizePrefix' = header
                 /\ responseSize' = int(size)
                 /\ wire' = SubSeq(wire, k + 1, Len(wire))
                 /\ ops' = ops \o <<Op("Read"), Op("SetDeadline")>>
                 /\ pc' = IF 0 < size THEN "SizeRead" ELSE "ResponseRead"
                 /\ UNCHANGED <<result, con>>
    /\ UNCHANGED <<call, randSource, response, json, pong, latency, sessionID, challengeToken>>

ReadBetaStatusResponseSize ==
    /\ call = "StatusBeta"
    /\ pc = "RequestSent"
    /\ \E k \in 0..Min(betaHeaderSize, Len(wire)) :
        IF k = 0
        THEN /\ Fail(ErrRead, <<Op("Read")>>)
             /\ UNCHANGED <<wire, sizePrefix, responseSize>>
        ELSE LET header == ReadInto(betaHeaderSize, k)
                 size == (header[2] * 256 + header[3]) * 2
             IN  /\ sizePrefix' = header
                 /\ responseSize' = int(size)
                 /\ wire' = SubSeq(wire, k + 1, Len(wire))
                 /\ ops' = ops \o <<Op("Read"), Op("SetDeadline")>>
                 /\ pc' = IF 0 < size THEN "SizeRead" ELSE "ResponseRead"
                 /\ UNCHANGED <<result, con>>
    /\ UNCHANGED <<call, randSource, response, json, pong, latency, sessionID, challengeToken>>

ReadBetaStatusResponse_ReadsAgain ==
    /\ call = "StatusBeta"
    /\ pc = "SizeRead"
    /\ \E k \in 0..Min(betaBufferSize, Len(wire)) :
        IF k = 0
        THEN /\ ops' = ops \o Issued(<<Op("Read")>>, ErrRead)
             /\ UNCHANGED <<wire, response, pc, result, con>>
        ELSE /\ response' = response \o SubSeq(wire, 1, k)
             /\ wire' = SubSeq(wire, k + 1, Len(wire))
             /\ ops' = Append(ops, Op("Read"))
             /\ pc' = IF intLess(int(Len(response')), responseSize) THEN "SizeRead"
                                                                    ELSE "ResponseRead"
             /\ UNCHANGED <<result, con>>
    /\ UNCHANGED <<call, randSource, json, pong, sizePrefix, responseSize, latency, sessionID,
                   challengeToken>>

\* readBetaStatusResponse: one pass of its loop, a Read into 32 bytes
\* appended to response, until response holds responseSize bytes.
ReadBetaStatusResponse ==
    /\ call = "StatusBeta"
    /\ pc = "SizeRead"
    /\ \E k \in 0..Min(betaBufferSize, Len(wire)) :
        IF k = 0
        THEN /\ Fail(ErrRead, <<Op("Read")>>)
             /\ UNCHANGED <<wire, response>>
        ELSE /\ response' = response \o SubSeq(wire, 1, k)
             /\ wire' = SubSeq(wire, k + 1, Len(wire))
             /\ ops' = Append(ops, Op("Read"))
             /\ pc' = IF intLess(int(Len(response')), responseSize) THEN "SizeRead"
                                                                    ELSE "ResponseRead"
             /\ UNCHANGED <<result, con>>
    /\ UNCHANGED <<call, randSource, json, pong, sizePrefix, responseSize, latency, sessionID,
                   challengeToken>>

\* con.Close() and the return of StatusBeta, which processes no response.
ReturnBeta ==
    /\ call = "StatusBeta"
    /\ pc = "ResponseRead"
    /\ result' = [status |-> ZeroStatusBetaResponse, err |-> NoErr]
    /\ con' = "closed"
    /\ ops' = ops \o <<Op("Close")>> \o DeferredOps
    /\ pc' = "done"
    /\ UNCHANGED <<call, randSource, response, json, pong, wire, sizePrefix, responseSize, latency,
                   sessionID, challengeToken>>

\* initiateQueryRequest up to the Write in readChallengeToken: the session
\* ID, the handshake packet and its Write.
WriteQueryHandshake ==
    /\ isQuery
    /\ pc = "Connected"
    /\ \E now \in 1..MaxClock :
        LET seeded == randSeed(now)
            id == createSessionID(randInt(seeded))
            issued == <<Op("SetDeadline"), WriteOp(createQueryHandshakePacket(id))>>
        IN  /\ randSource' = randNext(seeded)
            /\ sessionID' = id
            /\ \E ok \in BOOLEAN :
                IF ok
                THEN /\ ops' = ops \o issued
                     /\ pc' = "HandshakeWritten"
                     /\ UNCHANGED <<result, con>>
                ELSE Fail(ErrWrite, issued)
    /\ UNCHANGED <<call, response, json, pong, wire, sizePrefix, responseSize, latency,
                   challengeToken>>

\* The rest of readChallengeToken: one Read into a buffer of 32 bytes and
\* parseChallengeToken. A panic unwinds the call through the deferred
\* con.Close() and returns nothing.
ReadChallengeToken ==
    /\ isQuery
    /\ pc = "HandshakeWritten"
    /\ LET issued == <<Op("SetDeadline"), Op("Read")>>
       IN  \E ok \in (IF wire = <<>> THEN {FALSE} ELSE BOOLEAN) :
            IF ~ok
            THEN /\ Fail(ErrRead, issued)
                 /\ UNCHANGED <<wire, response, challengeToken>>
            ELSE LET potentialChallengeToken ==
                         SliceTo(Head(wire), Min(challengeBufferSize, Len(Head(wire))))
                     parsed == parseChallengeToken(potentialChallengeToken)
                 IN  /\ wire' = Tail(wire)
                     /\ response' = potentialChallengeToken
                     /\ IF parsed.panic
                        THEN /\ ops' = ops \o issued \o DeferredOps
                             /\ con' = deferred(con)
                             /\ pc' = "panic"
                             /\ UNCHANGED <<result, challengeToken>>
                        ELSE IF parsed.err # NoErr
                        THEN /\ Fail(parsed.err, issued)
                             /\ UNCHANGED challengeToken
                        ELSE /\ challengeToken' = parsed.token
                             /\ ops' = ops \o issued
                             /\ pc' = "ChallengeRead"
                             /\ UNCHANGED <<result, con>>
    /\ UNCHANGED <<call, randSource, json, pong, sizePrefix, responseSize, latency, sessionID>>

SendQueryRequest_Retransmits ==
    /\ isQuery
    /\ pc = "ChallengeRead"
    /\ LET queryRequestPacket ==
               createQueryRequestPacket(sessionID, challengeToken, call = "FullQuery")
           issued == <<Op("SetDeadline"), WriteOp(queryRequestPacket)>>
       IN  \E ok \in BOOLEAN :
            /\ ops' = IF ok THEN ops \o issued
                             ELSE ops \o Issued(issued, ErrWrite) \o issued
            /\ pc' = "RequestSent"
            /\ UNCHANGED <<result, con>>
    /\ UNCHANGED <<call, randSource, response, json, pong, wire, sizePrefix, responseSize,
                   latency, sessionID, challengeToken>>

\* sendQueryRequest: the Write of the request packet.
SendQueryRequest ==
    /\ isQuery
    /\ pc = "ChallengeRead"
    /\ LET queryRequestPacket ==
               createQueryRequestPacket(sessionID, challengeToken, call = "FullQuery")
           issued == <<Op("SetDeadline"), WriteOp(queryRequestPacket)>>
       IN  \E ok \in BOOLEAN :
            IF ok
            THEN /\ ops' = ops \o issued
                 /\ pc' = "RequestSent"
                 /\ UNCHANGED <<result, con>>
            ELSE Fail(ErrWrite, issued)
    /\ UNCHANGED <<call, randSource, response, json, pong, wire, sizePrefix, responseSize, latency,
                   sessionID, challengeToken>>

\* readQueryResponse: one timed Read into a buffer of 8192 bytes.
ReadQueryResponse ==
    /\ isQuery
    /\ pc = "RequestSent"
    /\ LET issued == <<Op("SetDeadline"), Op("Now"), Op("Read")>>
       IN  \E ok \in (IF wire = <<>> THEN {FALSE} ELSE BOOLEAN) :
            IF ~ok
            THEN /\ Fail(ErrRead, issued)
                 /\ UNCHANGED <<wire, response, latency>>
            ELSE /\ response' = SliceTo(Head(wire), Min(queryBufferSize, Len(Head(wire))))
                 /\ wire' = Tail(wire)
                 /\ \E elapsed \in {1, 40} : latency' = elapsed
                 /\ ops' = ops \o issued \o <<Op("Since")>>
                 /\ pc' = "ResponseRead"
                 /\ UNCHANGED <<result, con>>
    /\ UNCHANGED <<call, randSource, json, pong, sizePrefix, responseSize, sessionID, challengeToken>>

\* con.Close(), packageBasicQueryResponse or packageFullQueryResponse, and
\* the return of BasicQuery or FullQuery.
PackageQueryResponse ==
    /\ isQuery
    /\ pc = "ResponseRead"
    /\ LET packaged ==
               IF call = "FullQuery"
               THEN packageFullQueryResponse("203.0.113.7", 25565, latency, response)
               ELSE packageBasicQueryResponse("203.0.113.7", 25565, latency, response)
       IN  result' = IF packaged.err # NoErr
                     THEN [status |-> ZeroResponse, err |-> packaged.err]
                     ELSE [status |-> packaged.status, err |-> NoErr]
    /\ con' = "closed"
    /\ ops' = ops \o <<Op("Close")>> \o DeferredOps
    /\ pc' = "done"
    /\ UNCHANGED <<call, randSource, response, json, pong, wire, sizePrefix, responseSize, latency,
                   sessionID, challengeToken>>

NextHandlers ==
    \/ NextStatus
    \/ InitiateRequest
    \/ ReadLegacyStatusResponse
    \/ PackageLegacyResponse
    \/ ReadBetaStatusResponseSize
    \/ ReadBetaStatusResponse
    \/ ReturnBeta
    \/ WriteQueryHandshake
    \/ ReadChallengeToken
    \/ SendQueryRequest
    \/ ReadQueryResponse
    \/ PackageQueryResponse

SpecHandlers == InitHandlers /\ [][NextHandlers]_vars

(***************************************************************************)
(* SpecConcurrent: calls of the entry points running concurrently, as far  *)
(* as they touch the variables of the package and of math/rand, which are  *)
(* all that calls have in common. call, pc, sessionID and result hold one   *)
(* value for each call; ops is the log of the accesses to those variables. *)
(***************************************************************************)
Calls == 1..MaxCalls

Access(c, variable, access) == [call |-> c, variable |-> variable, access |-> access]

InitConcurrent ==
    /\ call \in [Calls -> {"Status", "Ping", "StatusLegacy", "StatusBeta", "BasicQuery",
                           "FullQuery"}]
    /\ pc = [c \in Calls |-> "Start"]
    /\ sessionID = [c \in Calls |-> <<>>]
    /\ result = [c \in Calls |-> NoResult]
    /\ randSource = Unseeded
    /\ ops = <<>>
    /\ response = <<>>
    /\ json = NoJSON
    /\ pong = NoPong
    /\ con = "none"
    /\ wire = <<>>
    /\ sizePrefix = <<>>
    /\ responseSize = int(0)
    /\ latency = 0
    /\ challengeToken = <<>>

\* createSessionID, its first statement: rand.Seed(time.Now().UnixNano()).
\* The clock does not run backwards.
SeedSource(c) ==
    /\ call[c] \in {"BasicQuery", "FullQuery"}
    /\ pc[c] = "Start"
    /\ \E now \in 1..MaxClock :
        /\ now >= randSource.seed
        /\ randSource' = randSeed(now)
    /\ ops' = Append(ops, Access(c, "rand", "write"))
    /\ pc' = [pc EXCEPT ![c] = "Seeded"]
    /\ UNCHANGED <<call, sessionID, result, response, json, pong, con, wire, sizePrefix,
                   responseSize, latency, challengeToken>>

\* createSessionID, the rest: rand.Int(), which reads the source and moves
\* it on, the mask and the 4 bytes.
DrawSessionID(c) ==
    /\ pc[c] = "Seeded"
    /\ sessionID' = [sessionID EXCEPT ![c] = createSessionID(randInt(randSource))]
    /\ randSource' = randNext(randSource)
    /\ ops' = ops \o <<Access(c, "rand", "read"), Access(c, "rand", "write")>>
    /\ pc' = [pc EXCEPT ![c] = "SessionIDCreated"]
    /\ UNCHANGED <<call, result, response, json, pong, con, wire, sizePrefix, responseSize,
                   latency, challengeToken>>

\* The first packet of the call, built from the variables of the package,
\* which no function assigns: the handshake of a query call from magicBytes,
\* the request of the others from requestPacket or legacyRequestPacket.
FirstPacket(c) ==
    /\ \/ call[c] \in {"BasicQuery", "FullQuery"} /\ pc[c] = "SessionIDCreated"
       \/ call[c] \notin {"BasicQuery", "FullQuery"} /\ pc[c] = "Start"
    /\ LET packet ==
               CASE call[c] \in {"BasicQuery", "FullQuery"} ->
                        [variable |-> "magicBytes",
                         data |-> createQueryHandshakePacket(sessionID[c])]
                 [] call[c] \in {"Status", "Ping"} ->
                        [variable |-> "requestPacket",
                         data |-> createStatusHandshakePacket(ServerName, 25565)
                                      \o requestPacket]
                 [] call[c] = "StatusLegacy" ->
                        [variable |-> "legacyRequestPacket", data |-> legacyRequestPacket]
                 [] call[c] = "StatusBeta" ->
                        [variable |-> "betaRequestPacket", data |-> <<betaRequestPacket>>]
       IN  /\ result' = [result EXCEPT ![c] = packet.data]
           /\ ops' = Append(ops, Access(c, packet.variable, "read"))
    /\ pc' = [pc EXCEPT ![c] = "done"]
    /\ UNCHANGED <<call, sessionID, randSource, response, json, pong, con, wire, sizePrefix,
                   responseSize, latency, challengeToken>>

NextConcurrent == \E c \in Calls : SeedSource(c) \/ DrawSessionID(c) \/ FirstPacket(c)

SpecConcurrent == InitConcurrent /\ [][NextConcurrent]_vars

(***************************************************************************)
(* SpecSessionID: createSessionID and createQueryHandshakePacket applied   *)
(* to a number drawn by rand.Int(), response holding the 4 bytes of its    *)
(* low 32 bits.                                                            *)
(***************************************************************************)
\* Bytes of a random number: every nibble clear, every nibble set, and one
\* nibble set.
RandomBytes == {0, 15, 16, 240, 255}

InitSessionID ==
    /\ call = "createSessionID"
    /\ pc = "call"
    /\ response \in [1..4 -> RandomBytes]
    /\ json = NoJSON
    /\ pong = NoPong
    /\ result = NoResult
    /\ NoNetwork

CreateSessionID ==
    /\ call = "createSessionID"
    /\ pc = "call"
    /\ sessionID' = createSessionID(response)
    /\ pc' = "created"
    /\ UNCHANGED <<call, response, json, pong, result, con, wire, ops, sizePrefix,
                   responseSize, latency, challengeToken, randSource>>

CreateQueryHandshakePacket ==
    /\ call = "createSessionID"
    /\ pc = "created"
    /\ result' = createQueryHandshakePacket(sessionID)
    /\ pc' = "done"
    /\ UNCHANGED <<call, response, json, pong>>
    /\ UNCHANGED netvars

NextSessionID == CreateSessionID \/ CreateQueryHandshakePacket

SpecSessionID == InitSessionID /\ [][NextSessionID]_vars

(***************************************************************************)
(* SpecChallenge: parseChallengeToken applied to a challenge reply, as     *)
(* readChallengeToken applies it to the bytes it read. response holds the  *)
(* reply.                                                                  *)
(***************************************************************************)
MaxTokenLen == 4

\* The decimal ASCII text of a 32-bit signed integer, as a server writes it.
RECURSIVE decimalDigits(_)
decimalDigits(v) ==
    LET digit == (10 - (v % 10)) % 10
        rest == (v + digit) \div 10
    IN  IF rest = 0 THEN <<48 + digit>> ELSE Append(decimalDigits(rest), 48 + digit)

decimalText(v) ==
    IF v >= 0 THEN decimalDigits(0 - v) ELSE <<45>> \o decimalDigits(v)

\* Both ends of the 32-bit range, their neighbours, and values around zero
\* and around the byte boundaries.
TokenValues ==
    {-2147483647 - 1, -2147483647, -16777216, -65536, -256, -255, -10, -1, 0, 1, 9, 10,
     255, 256, 65535, 16777216, 2147483646, 2147483647}

challengeHeader == <<9, 0, 0, 0, 1>>

ChallengeReplyOf(v) == challengeHeader \o decimalText(v) \o <<0>>

\* Null, '+', '-', '1' and 'x'.
TokenBytes == {0, 43, 45, 49, 120}

BytesUpTo(n) == UNION {[1..k -> TokenBytes] : k \in 0..n}

\* Replies shorter than the header, the header followed by up to MaxTokenLen
\* bytes, the texts of TokenValues, a number one past each end of the range,
\* and replies that fill the 32 bytes of the buffer.
ChallengeReplyInputs ==
    BytesUpTo(MaxTokenLen)
        \cup {challengeHeader \o text : text \in BytesUpTo(MaxTokenLen)}
        \cup {ChallengeReplyOf(v) : v \in TokenValues}
        \cup {challengeHeader \o <<50, 49, 52, 55, 52, 56, 51, 54, 52, 56, 0>>,
              challengeHeader \o <<45, 50, 49, 52, 55, 52, 56, 51, 54, 52, 57, 0>>,
              challengeHeader \o [i \in 1..27 |-> 0],
              challengeHeader \o [i \in 1..27 |-> IF i = 27 THEN 0 ELSE 48],
              [i \in 1..32 |-> 49]}

InitChallenge ==
    /\ call = "parseChallengeToken"
    /\ pc = "call"
    /\ response \in ChallengeReplyInputs
    /\ json = NoJSON
    /\ pong = NoPong
    /\ result = NoResult
    /\ NoNetwork

\* parseChallengeToken(potentialChallengeToken); an index out of range ends
\* the call in a panic with nothing returned.
ParseChallengeToken ==
    /\ call = "parseChallengeToken"
    /\ pc = "call"
    /\ LET parsed == parseChallengeToken(response)
       IN  IF parsed.panic
           THEN pc' = "panic" /\ UNCHANGED result
           ELSE pc' = "done" /\ result' = [token |-> parsed.token, err |-> parsed.err]
    /\ UNCHANGED <<call, response, json, pong>>
    /\ UNCHANGED netvars

NextChallenge == ParseChallengeToken

SpecChallenge == InitChallenge /\ [][NextChallenge]_vars

(***************************************************************************)
(* SpecHandshake: the packet of initiateStatusRequest for a host given by  *)
(* its length, so that hosts too long to enumerate byte by byte are        *)
(* covered. response holds the arguments: the host is response.server      *)
(* bytes long, all of them 'a'. The packet is result.head, the bytes of    *)
(* the host, and result.tail.                                              *)
(***************************************************************************)
\* a + n for an int a and a small n that is not negative.
intAdd(a, n) ==
    LET lo == a.lo + n
    IN  [hi |-> a.hi + lo \div Pow2(28), lo |-> lo % Pow2(28)]

\* createStatusHandshakePacket for a server of serverLength bytes, as the
\* bytes before the server and the bytes after it.
createStatusHandshakePacketOfLength(serverLength, port) ==
    LET serverLengthBytes == writeVarInt(serverLength)
        handshakeLength == intAdd(serverLength, 2 + Len(serverLengthBytes) + 2 + 1)
    IN  [head |-> writeVarInt(handshakeLength) \o <<packetID, protocolVersion>>
                      \o serverLengthBytes,
         tail |-> portToBytes(port) \o <<nextState>>]

\* Lengths around the ends of the 7-bit groups and up to 2^32 - 1.
HostLengths ==
    {int(n) : n \in {0, 1, 2, 11, 121, 122, 123, 127, 128, 129, 16383, 16384, 2097151,
                      2097152, Pow2(28) - 1}}
        \cup {[hi |-> 1, lo |-> 0], [hi |-> 8, lo |-> 5]}
        \cup {[hi |-> 15, lo |-> Pow2(28) - k] : k \in 1..12}

HostPorts == {0, 255, 256, 25565, 65535}

InitHandshake ==
    /\ call = "initiateStatusRequest"
    /\ pc = "call"
    /\ response \in [server : HostLengths, port : HostPorts]
    /\ json = NoJSON
    /\ pong = NoPong
    /\ result = NoResult
    /\ NoNetwork

\* handshake := createStatusHandshakePacket(server, port);
\* completedRequestPacket := append(handshake, requestPacket...), which is
\* handed to one con.Write.
CreateStatusHandshakePacket ==
    /\ call = "initiateStatusRequest"
    /\ pc = "call"
    /\ LET handshake == createStatusHandshakePacketOfLength(response.server, response.port)
       IN  result' = [handshake EXCEPT !.tail = @ \o requestPacket]
    /\ pc' = "done"
    /\ UNCHANGED <<call, response, json, pong>>
    /\ UNCHANGED netvars

NextHandshake == CreateStatusHandshakePacket

SpecHandshake == InitHandshake /\ [][NextHandshake]_vars

(***************************************************************************)
(* SpecLegacyFields: parseLegacyStatusResponse applied to a response; the  *)
(* result is the list of fields and the error it returns.                  *)
(***************************************************************************)
\* The header cut short, and the header followed by every sequence of nulls
\* and '1' up to a length.
LegacyFieldInputs ==
    {SubSeq(LegacyHeader, 1, k) : k \in 0..legacyHeaderSize}
        \cup {LegacyHeader \o raw : raw \in SeqsUpTo({0, 49}, MaxLegacyRaw)}

InitLegacyFields ==
    /\ call = "parseLegacyStatusResponse"
    /\ pc = "call"
    /\ response \in LegacyFieldInputs
    /\ json = NoJSON
    /\ pong = NoPong
    /\ result = NoResult
    /\ NoNetwork

ParseLegacyStatusResponse ==
    /\ call = "parseLegacyStatusResponse"
    /\ pc = "call"
    /\ result' = parseLegacyStatusResponse(response)
    /\ pc' = "done"
    /\ UNCHANGED <<call, response, json, pong>>
    /\ UNCHANGED netvars

NextLegacyFields == ParseLegacyStatusResponse

SpecLegacyFields == InitLegacyFields /\ [][NextLegacyFields]_vars

(***************************************************************************)
(* SpecKeyValue: parseKeyValueSection applied to a key-value section; the  *)
(* result is the JSON object it returns, as its pairs, and the error.      *)
(***************************************************************************)
MaxKeyValueLen == 8

\* The header cut short, and the header followed by every sequence of
\* nulls, 'A' and 'B' up to a length.
KeyValueSections ==
    {SubSeq(FullHeader, 1, k) : k \in 0..keyValueHeaderSize}
        \cup {FullHeader \o raw : raw \in SeqsUpTo({0, 65, 66}, MaxKeyValueLen)}

InitKeyValue ==
    /\ call = "parseKeyValueSection"
    /\ pc = "call"
    /\ response \in KeyValueSections
    /\ json = NoJSON
    /\ pong = NoPong
    /\ result = NoResult
    /\ NoNetwork

ParseKeyValueSection ==
    /\ call = "parseKeyValueSection"
    /\ pc = "call"
    /\ result' = parseKeyValueSection(response)
    /\ pc' = "done"
    /\ UNCHANGED <<call, response, json, pong>>
    /\ UNCHANGED netvars

NextKeyValue == ParseKeyValueSection

SpecKeyValue == InitKeyValue /\ [][NextKeyValue]_vars

(***************************************************************************)
(* SpecNullFraming: the four parsers of null-framed text, each applied to  *)
(* its input: parseLegacyStatusResponse, parseBasicQueryResponse,          *)
(* parseKeyValueSection and packagePlayerSection.                          *)
(***************************************************************************)
\* The header cut short, and the header followed by every sequence of nulls
\* and '1' up to a length.
BasicFieldInputs ==
    {SubSeq(BasicHeader, 1, k) : k \in 0..basicHeaderSize}
        \cup {BasicHeader \o raw : raw \in SeqsUpTo({0, 49}, MaxBasicRaw)}

InitBasicFields ==
    /\ call = "parseBasicQueryResponse"
    /\ pc = "call"
    /\ response \in BasicFieldInputs
    /\ json = NoJSON
    /\ pong = NoPong
    /\ result = NoResult
    /\ NoNetwork

\* parseBasicQueryResponse; the result holds responseSlice, the values the
\* loop split off, next to the basicQuery they were packaged into.
ParseBasicQueryResponse ==
    /\ call = "parseBasicQueryResponse"
    /\ pc = "call"
    /\ LET parsed == parseBasicQueryResponse(response, ZeroBasicQueryResponse)
       IN  result' =
               [responseSlice |->
                    IF Len(response) < 5 THEN <<>>
                    ELSE basicLoop(SliceFrom(response, basicHeaderSize), 1, <<>>, <<>>)
                             .responseSlice,
                basicQuery |-> parsed.basicQuery,
                err |-> parsed.err]
    /\ pc' = "done"
    /\ UNCHANGED <<call, response, json, pong>>
    /\ UNCHANGED netvars

InitNullFraming == InitLegacyFields \/ InitBasicFields \/ InitKeyValue \/ InitPlayer

NextNullFraming ==
    \/ ParseLegacyStatusResponse
    \/ ParseBasicQueryResponse
    \/ ParseKeyValueSection
    \/ PackagePlayerSection

SpecNullFraming == InitNullFraming /\ [][NextNullFraming]_vars

(***************************************************************************)
(* Claims.                                                                 *)
(***************************************************************************)
\* The number of bytes of the JSON-length varint that starts bs: up to and
\* including the first byte below 128, or all of bs when there is none.
VarIntSpan(bs) ==
    IF \E i \in 1..Len(bs) : bs[i] < 128
    THEN CHOOSE i \in 1..Len(bs) : bs[i] < 128 /\ \A j \in 1..(i - 1) : bs[j] >= 128
    ELSE Len(bs)

\* The value of the 7-bit groups of bs, least significant group first.
RECURSIVE GroupValue(_)
GroupValue(bs) ==
    IF bs = <<>> THEN 0 ELSE (Head(bs) % 128) + 128 * GroupValue(Tail(bs))

\* C3: for a payload of at least 4 bytes whose JSON-length varint has at most
\* 5 bytes, with the state ID and the varint removed, the parse fails with
\* ErrInvalidSizeInfo when the decoded length differs from the number of
\* remaining bytes, and otherwise returns exactly the remaining bytes.
C3_SizeInfo ==
    (call = "formatStatusResponse" /\ pc = "done" /\ Len(response) >= 4) =>
        LET span == VarIntSpan(Tail(response))
            rest == SubSeq(response, span + 2, Len(response))
            declared == GroupValue(SubSeq(response, 2, span + 1))
        IN  span <= 5 =>
                IF declared # Len(rest)
                THEN result.err = ErrInvalidSizeInfo
                ELSE result.err = NoErr /\ result.response = rest

\* A payload with a two-byte varint whose declared length equals the two
\* bytes that follow it has been passed on.
C3_Witness ==
    /\ call = "formatStatusResponse"
    /\ pc = "done"
    /\ response = <<0, 130, 0, 2, 2>>
    /\ result.err = NoErr
    /\ result.response = <<2, 2>>

\* The five mandatory members of a document in the order they are checked,
\* and the names they are reported under.
MandatoryKinds(doc) ==
    <<doc.description, doc.players.max, doc.players.online, doc.version.name,
      doc.version.protocol>>

MandatoryNames ==
    <<"description", "max players", "online players", "version name", "version protocol">>

\* A member has no value in the payload: its key is missing or it is null.
NoValue(kind) == kind = "absent" \/ kind = "null"

\* The body is JSON that the decoder takes: an object (or null) whose players
\* and version members, where given, are objects (or null).
Decodes(doc) ==
    /\ doc.top \in {"object", "null"}
    /\ doc.players.kind \in {"absent", "null", "object"}
    /\ doc.version.kind \in {"absent", "null", "object"}

WellFramed == formatStatusResponse(response).err = NoErr

\* C1: for a well-framed payload whose body decodes, packageStatusResponse
\* returns without error only when description, players.max, players.online,
\* version.name and version.protocol all have a value; when any has none the
\* call fails with ErrMissingInformation{"status", field}, field naming the
\* first one without a value in the order description, max players, online
\* players, version name, version protocol.
C1_MandatoryFields ==
    (call = "packageStatusResponse" /\ pc = "done" /\ WellFramed /\ Decodes(json)) =>
        LET kinds == MandatoryKinds(json)
            missing == {i \in 1..5 : NoValue(kinds[i])}
        IN  /\ result.err = NoErr => missing = {}
            /\ missing # {} =>
                   \E i \in missing :
                       /\ \A j \in missing : i <= j
                       /\ result.err = ErrMissingInformation("status", MandatoryNames[i])
                       /\ result.status = ZeroStatusResponse

\* Max players, online players and version protocol are all missing and the
\* error names max players.
C1_Witness ==
    /\ call = "packageStatusResponse"
    /\ pc = "done"
    /\ WellFramed
    /\ json.top = "object"
    /\ json.description = "string"
    /\ json.players.kind = "object"
    /\ json.players.max = "absent"
    /\ json.players.online = "absent"
    /\ json.version.kind = "object"
    /\ json.version.name = "ok"
    /\ json.version.protocol = "absent"
    /\ result.err = ErrMissingInformation("status", "max players")

\* The favicon, the player sample and the mod info are all absent.
OptionalAbsent(doc) ==
    /\ doc.favicon = "absent"
    /\ doc.players.sample = "absent"
    /\ doc.modinfo = "absent"

\* C2: for a well-framed payload with all five mandatory members present,
\* the absence of favicon, sample and mod info causes no error: the call
\* succeeds when the mandatory members have the JSON types of the result's
\* fields (otherwise the only error is the decoder's type error for them),
\* and Favicon, Players.Sample and ModInfo of the result are empty.
C2_OptionalFields ==
    (/\ call = "packageStatusResponse" /\ pc = "done" /\ WellFramed /\ Decodes(json)
     /\ \A i \in 1..5 : ~NoValue(MandatoryKinds(json)[i])
     /\ OptionalAbsent(json)) =>
        IF \E i \in 2..5 : MandatoryKinds(json)[i] = "bad"
        THEN result.err = ErrJSONType
        ELSE /\ result.err = NoErr
             /\ result.status.Favicon = ""
             /\ result.status.Players.Sample.elems = <<>>
             /\ result.status.ModInfo.Type = ""
             /\ result.status.ModInfo.ModList.elems = <<>>
             /\ result.status.Players.Max = 20
             /\ result.status.Version.Name = "1.8.9"

\* A document with only the five mandatory members was packaged.
C2_Witness ==
    /\ call = "packageStatusResponse"
    /\ pc = "done"
    /\ WellFramed
    /\ json.top = "object"
    /\ \A i \in 1..5 : MandatoryKinds(json)[i] \in {"ok", "object"}
    /\ OptionalAbsent(json)
    /\ result.err = NoErr
    /\ result.status.Players.Online = 5
    /\ result.status.Favicon = ""

\* The latency step has run: the pong was read into the buffer and compared.
LatencyStepDone ==
    /\ call \in {"Status", "Ping"}
    /\ pc \in {"PongReceived", "StatusReturned", "done"}
    /\ pong # NoPong

\* Status has returned, to its caller or to Ping.
StatusDone == pc \in {"StatusReturned", "done"}

\* C4: in the latency step of Status and Ping, a pong that differs from the
\* ping 9,1,7,7,7,7,7,7,7,7 in any of its 10 bytes makes the call fail with
\* ErrInvalidPong, and a pong equal to it in all 10 bytes does not.
C4_InvalidPong ==
    LatencyStepDone =>
        LET ping == <<9, 1, 7, 7, 7, 7, 7, 7, 7, 7>>
            differs == \E i \in 1..10 : pong[i] # ping[i]
        IN  /\ Len(pong) = 10
            /\ differs => StatusDone /\ result.err = ErrInvalidPong
            /\ ~differs => ~(StatusDone /\ result.err = ErrInvalidPong)

\* A pong whose last byte alone differs from the ping was rejected.
C4_Witness ==
    /\ call = "Status"
    /\ pc = "done"
    /\ pong = <<9, 1, 7, 7, 7, 7, 7, 7, 7, 0>>
    /\ result.err = ErrInvalidPong

\* The bytes of bs that are not null.
NonNull(bs) == SelectSeq(bs, LAMBDA b : b # 0)

\* The number of consecutive null bytes of bs that end right before byte i.
NullsBefore(bs, i) ==
    CHOOSE k \in 0..(i - 1) :
        /\ \A m \in (i - k)..(i - 1) : bs[m] = 0
        /\ (k < i - 1 => bs[i - k - 1] # 0)

\* Byte i of bs is the second byte of a pair of nulls: pairs do not overlap,
\* so in a run of nulls these are the second, the fourth, ... null.
PairEnds(bs) == {i \in 1..Len(bs) : bs[i] = 0 /\ NullsBefore(bs, i) % 2 = 1}

\* The k-th smallest element of the set of positions E.
Nth(E, k) == CHOOSE e \in E : Cardinality({x \in E : x <= e}) = k

\* The fields of a legacy response after its header: the text between two
\* pairs of nulls, and the text after the last pair.
LegacyFieldsOf(bs) ==
    LET E == PairEnds(bs)
        m == Cardinality(E)
    IN  [k \in 1..(m + 1) |->
            NonNull(SubSeq(bs, IF k = 1 THEN 1 ELSE Nth(E, k - 1) + 1,
                               IF k = m + 1 THEN Len(bs) ELSE Nth(E, k)))]

\* A decimal integer: an optional sign and one or more digits.
DigitsOf(text) == IF text # <<>> /\ text[1] \in {43, 45} THEN Tail(text) ELSE text

IsDecimal(text) ==
    /\ DigitsOf(text) # <<>>
    /\ \A i \in 1..Len(DigitsOf(text)) : DigitsOf(text)[i] \in 48..57

\* The digits d without their leading zeros.
Significant(d) ==
    IF \A i \in 1..Len(d) : d[i] = 48 THEN <<>>
    ELSE SubSeq(d, CHOOSE i \in 1..Len(d) : d[i] # 48 /\ \A j \in 1..(i - 1) : d[j] = 48, Len(d))

\* a <= b for two digit texts of the same length.
DigitsLeq(a, b) ==
    a = b \/ \E i \in 1..Len(a) : a[i] < b[i] /\ \A j \in 1..(i - 1) : a[j] = b[j]

\* The decimal integer fits the 32-bit int that stringToInt parses.
FitsInt32(text) ==
    LET d == Significant(DigitsOf(text))
        limit == IF text[1] = 45 THEN <<50, 49, 52, 55, 52, 56, 51, 54, 52, 56>>
                                 ELSE <<50, 49, 52, 55, 52, 56, 51, 54, 52, 55>>
    IN  Len(d) < 10 \/ (Len(d) = 10 /\ DigitsLeq(d, limit))

\* Minus the number the digits d spell.
RECURSIVE MinusValue(_)
MinusValue(d) ==
    IF d = <<>> THEN 0 ELSE MinusValue(SubSeq(d, 1, Len(d) - 1)) * 10 - (d[Len(d)] - 48)

DecimalValue(text) ==
    IF text[1] = 45 THEN MinusValue(DigitsOf(text)) ELSE 0 - MinusValue(DigitsOf(text))

IsInt(text) == IsDecimal(text) /\ FitsInt32(text)

LegacyParsed == call = "packageLegacyStatusResponse" /\ pc = "done" /\ Len(response) >= 10

\* C5: for a legacy response of at least 10 bytes whose bytes after the
\* 9-byte header split into at least 5 fields, fields 0, 3 and 4 being
\* decimal integers (of the 32-bit int the result holds), the result has
\* Version.Protocol = field 0, Version.Name = field 1, Description = field 2,
\* Players.Online = field 3 and Players.Max = field 4, whatever fields follow.
C5_LegacyFields ==
    LegacyParsed =>
        LET fields == LegacyFieldsOf(SubSeq(response, 10, Len(response)))
        IN  (Len(fields) >= 5 /\ IsInt(fields[1]) /\ IsInt(fields[4]) /\ IsInt(fields[5])) =>
                /\ result.err = NoErr
                /\ result.status.Version.Protocol = DecimalValue(fields[1])
                /\ result.status.Version.Name = fields[2]
                /\ result.status.Description = fields[3]
                /\ result.status.Players.Online = DecimalValue(fields[4])
                /\ result.status.Players.Max = DecimalValue(fields[5])

\* Six fields "7", "Ab", "Ab", "-12", "2147483647", "Ab" were packaged.
C5_Witness ==
    /\ LegacyParsed
    /\ Len(LegacyFieldsOf(SubSeq(response, 10, Len(response)))) = 6
    /\ result.err = NoErr
    /\ result.status.Version.Protocol = 7
    /\ result.status.Version.Name = <<65, 98>>
    /\ result.status.Description = <<65, 98>>
    /\ result.status.Players.Online = -12
    /\ result.status.Players.Max = 2147483647

\* C6: a legacy response of at least 10 bytes whose bytes after the 9-byte
\* header split into fewer than 5 fields fails with
\* ErrStatusLegacyMissingInformation and no field of the result is populated.
C6_LegacyMissing ==
    LegacyParsed =>
        (Len(LegacyFieldsOf(SubSeq(response, 10, Len(response)))) < 5 =>
            /\ result.err = ErrStatusLegacyMissingInformation
            /\ result.status = ZeroStatusLegacyResponse)

\* A response of three fields "7", "Ab", "Ab" was rejected.
C6_Witness ==
    /\ LegacyParsed
    /\ LegacyFieldsOf(SubSeq(response, 10, Len(response))) = <<<<55>>, <<65, 98>>, <<65, 98>>>>
    /\ result.err = ErrStatusLegacyMissingInformation

\* The positions of the null bytes of bs.
Nulls(bs) == {i \in 1..Len(bs) : bs[i] = 0}

\* The null-terminated fields of bs: the bytes between one null byte and the
\* next; bytes behind the last null are no field.
NullTerminatedFields(bs) ==
    LET Z == Nulls(bs)
    IN  [k \in 1..Cardinality(Z) |->
            SubSeq(bs, IF k = 1 THEN 1 ELSE Nth(Z, k - 1) + 1, Nth(Z, k) - 1)]

BasicParsed == call = "packageBasicQueryResponse" /\ pc = "done" /\ Len(response) >= 5

\* C7: for a basic-query response of at least 5 bytes, the bytes after the
\* 5-byte header are split on single null bytes; with at least 5 fields,
\* fields 3 and 4 being decimal integers (of the 32-bit int the result
\* holds), fields 0, 1, 2 are Description, GameType, MapName and fields 3, 4
\* are Players.Online and Players.Max; with fewer than 5 fields the call
\* fails with ErrShortQueryResponse.
C7_BasicFields ==
    BasicParsed =>
        LET fields == NullTerminatedFields(SubSeq(response, 6, Len(response)))
        IN  /\ (Len(fields) >= 5 /\ IsInt(fields[4]) /\ IsInt(fields[5])) =>
                   /\ result.err = NoErr
                   /\ result.status.Description = fields[1]
                   /\ result.status.GameType = fields[2]
                   /\ result.status.MapName = fields[3]
                   /\ result.status.Players.Online = DecimalValue(fields[4])
                   /\ result.status.Players.Max = DecimalValue(fields[5])
            /\ Len(fields) < 5 =>
                   /\ result.err = ErrShortQueryResponse
                   /\ result.status = ZeroBasicQueryResponse

\* Five fields "Ab", "", "Ab", "7", "-12" were packaged.
C7_Witness ==
    /\ BasicParsed
    /\ response = BasicHeader \o <<65, 98, 0, 0, 65, 98, 0, 55, 0, 45, 49, 50, 0>>
    /\ result.err = NoErr
    /\ result.status.Description = <<65, 98>>
    /\ result.status.GameType = <<>>
    /\ result.status.Players.Online = 7
    /\ result.status.Players.Max = -12

FullParsed == call = "packageFullQueryResponse" /\ pc = "done"

\* The positions at which the 11 bytes of the marker stand in bs.
TokenAt(bs) ==
    {i \in 1..(Len(bs) - 10) :
        \A j \in 1..11 : bs[i + j - 1] = <<0, 1, 112, 108, 97, 121, 101, 114, 95, 0, 0>>[j]}

\* The occurrences of the marker from position from on, read from left to
\* right, each behind the end of the one before.
RECURSIVE MarkersFrom(_, _)
MarkersFrom(bs, from) ==
    LET next == {i \in TokenAt(bs) : i >= from}
    IN  IF next = {} THEN {}
        ELSE LET first == CHOOSE i \in next : \A j \in next : i <= j
             IN  {first} \cup MarkersFrom(bs, first + 11)

Markers(bs) == MarkersFrom(bs, 1)

\* C8: full-query parsing fails with ErrAbsentPlayerToken exactly when the
\* marker does not occur exactly once in the response (occurrences counted
\* from left to right, one behind the other); with one occurrence the result
\* is that of the bytes before it as the key-value section and the bytes
\* after it as the player section.
C8_PlayerToken ==
    FullParsed =>
        LET M == Markers(response)
        IN  /\ (result.err = ErrAbsentPlayerToken) <=> (Cardinality(M) # 1)
            /\ TokenAt(response) = {} => result.err = ErrAbsentPlayerToken
            /\ Cardinality(M) = 1 =>
                   LET at == CHOOSE i \in M : TRUE
                   IN  \E lat \in {1, 40} :
                           result = packageSections(
                                        [ZeroFullQueryResponse EXCEPT !.IP = "203.0.113.7",
                                                                      !.Port = 25565,
                                                                      !.Latency = lat],
                                        SubSeq(response, 1, at - 1),
                                        SubSeq(response, at + 11, Len(response)))

\* A response with the marker twice was rejected.
C8_Witness ==
    /\ FullParsed
    /\ Cardinality(TokenAt(response)) = 2
    /\ Cardinality(Markers(response)) = 2
    /\ Len(response) > 100
    /\ result.err = ErrAbsentPlayerToken
    /\ result.status = ZeroFullQueryResponse

\* The 8 keys a full-query response must hold, in the order of the claim.
QueryKeys ==
    <<[key |-> "hostname", bytes |-> <<104, 111, 115, 116, 110, 97, 109, 101>>],
      [key |-> "gametype", bytes |-> <<103, 97, 109, 101, 116, 121, 112, 101>>],
      [key |-> "game_id", bytes |-> <<103, 97, 109, 101, 95, 105, 100>>],
      [key |-> "version", bytes |-> <<118, 101, 114, 115, 105, 111, 110>>],
      [key |-> "plugins", bytes |-> <<112, 108, 117, 103, 105, 110, 115>>],
      [key |-> "map", bytes |-> <<109, 97, 112>>],
      [key |-> "numplayers", bytes |-> <<110, 117, 109, 112, 108, 97, 121, 101, 114, 115>>],
      [key |-> "maxplayers", bytes |-> <<109, 97, 120, 112, 108, 97, 121, 101, 114, 115>>]>>

\* text with its capitals turned into small letters.
LowerCase(text) == [i \in 1..Len(text) |-> IF text[i] \in 65..90 THEN text[i] + 32 ELSE text[i]]

\* The keys of the mapping a key-value section decodes to: of the
\* null-terminated strings behind the 16-byte header, the 1st, the 3rd and
\* so on that have a value behind them.
DecodedKeys(section) ==
    LET strings == NullTerminatedFields(SubSeq(section, 17, Len(section)))
    IN  {strings[2 * j - 1] : j \in 1..(Len(strings) \div 2)}

\* C9: for a full-query response with the marker exactly once and a
\* key-value section of at least 16 bytes: if one of the 8 keys hostname,
\* gametype, game_id, version, plugins, map, numplayers, maxplayers is absent
\* from the decoded mapping (no key of the mapping spells it, in small
\* letters or capitals), the call fails with
\* ErrMissingInformation{"query", key} for the first absent key in that
\* order; with the 8 keys present, with empty values too, it does not fail
\* with ErrMissingInformation.
C9_QueryMissing ==
    (FullParsed /\ Cardinality(Markers(response)) = 1) =>
        LET at == CHOOSE i \in Markers(response) : TRUE
            keys == DecodedKeys(SubSeq(response, 1, at - 1))
            absent == {i \in 1..8 : \A k \in keys : LowerCase(k) # QueryKeys[i].bytes}
        IN  at - 1 >= 16 =>
                /\ absent # {} =>
                       LET first == CHOOSE i \in absent : \A j \in absent : i <= j
                       IN  /\ result.err = ErrMissingInformation("query", QueryKeys[first].key)
                           /\ result.status = ZeroFullQueryResponse
                /\ absent = {} => result.err.kind # "ErrMissingInformation"

\* A response with an empty gametype and no map was rejected for its map.
C9_Witness ==
    /\ FullParsed
    /\ Cardinality(Markers(response)) = 1
    /\ LET keys == DecodedKeys(SubSeq(response, 1, (CHOOSE i \in Markers(response) : TRUE) - 1))
       IN  /\ QueryKeys[2].bytes \in keys
           /\ QueryKeys[6].bytes \notin keys
           /\ Cardinality(keys) = 7
    /\ Index(response, <<103, 97, 109, 101, 116, 121, 112, 101, 0, 0>>) > 0
    /\ result.err = ErrMissingInformation("query", "map")

PluginParsed == call = "packagePluginSection" /\ pc = "done"

\* The positions in text at which the two bytes a, b stand.
PairAt(text, a, b) == {i \in 1..(Len(text) - 1) : text[i] = a /\ text[i + 1] = b}

Least(E) == CHOOSE e \in E : \A o \in E : e <= o

\* The entries of a plugin list: the texts between its "; ".
PluginEntries(list) ==
    LET seps == PairAt(list, 59, 32)
        n == Cardinality(seps) + 1
    IN  [k \in 1..n |->
            SubSeq(list, IF k = 1 THEN 1 ELSE Nth(seps, k - 1) + 2,
                         IF k = n THEN Len(list) ELSE Nth(seps, k) - 1)]

\* C10: for a plugins value "<mod>: <e1>; <e2>; ..." (a ": " with text
\* behind the first one), the mod type is the text before the first ": "
\* and the mod list has one single-key mapping per "; "-separated entry, in
\* the order of the entries: an entry without a space maps itself to the
\* empty version, and the key of any other is its text before the first
\* space.
C10_Plugins ==
    (PluginParsed /\ PairAt(response, 58, 32) # {}) =>
        LET colon == Least(PairAt(response, 58, 32))
            list == SubSeq(response, colon + 2, Len(response))
            entries == PluginEntries(list)
            ModInfo == result.status.ModInfo
        IN  list # <<>> =>
                /\ ModInfo.Type = SubSeq(response, 1, colon - 1)
                /\ ~ModInfo.ModList.isNil
                /\ Len(ModInfo.ModList.elems) = Len(entries)
                /\ \A k \in 1..Len(entries) :
                       LET spaces == {i \in 1..Len(entries[k]) : entries[k][i] = 32}
                           mapping == ModInfo.ModList.elems[k]
                       IN  /\ Cardinality(DOMAIN mapping) = 1
                           /\ spaces = {} => mapping = (entries[k] :> <<>>)
                           /\ spaces # {} =>
                                  DOMAIN mapping = {SubSeq(entries[k], 1, Least(spaces) - 1)}

\* "Ab: A 1; A" was packaged as the type "Ab" with A at 1 and A at no version.
C10_Witness ==
    /\ PluginParsed
    /\ response = <<65, 98, 58, 32, 65, 32, 49, 59, 32, 65>>
    /\ result.status.ModInfo.Type = <<65, 98>>
    /\ result.status.ModInfo.ModList = Slice(<<(<<65>> :> <<49>>), (<<65>> :> <<>>)>>)

\* The text of entry behind its first space.
AfterFirstSpace(entry) ==
    SubSeq(entry, Least({i \in 1..Len(entry) : entry[i] = 32}) + 1, Len(entry))

\* C11: each plugin entry is split on its first space only: the name is the
\* text before the first space and the version is the whole text behind it,
\* also for an entry with two or more spaces.
C11_FirstSpaceOnly ==
    (PluginParsed /\ PairAt(response, 58, 32) # {}) =>
        LET colon == Least(PairAt(response, 58, 32))
            list == SubSeq(response, colon + 2, Len(response))
            entries == PluginEntries(list)
            ModList == result.status.ModInfo.ModList
        IN  list # <<>> =>
                \A k \in 1..Len(entries) :
                    LET spaces == {i \in 1..Len(entries[k]) : entries[k][i] = 32}
                    IN  spaces # {} =>
                            ModList.elems[k] =
                                (SubSeq(entries[k], 1, Least(spaces) - 1)
                                     :> AfterFirstSpace(entries[k]))

\* C12: a plugins value that holds only a mod name, with no ": " or with
\* nothing behind it, gives that mod type and a mod list that is empty and
\* not nil; an entry with no version has the empty string as its version.
C12_ExplicitEmpty ==
    (PluginParsed /\ response # <<>>) =>
        LET colons == PairAt(response, 58, 32)
            ModInfo == result.status.ModInfo
        IN  /\ colons = {} =>
                   /\ ModInfo.Type = response
                   /\ ModInfo.ModList = Slice(<<>>)
            /\ (colons # {} /\ Least(colons) + 1 = Len(response)) =>
                   /\ ModInfo.Type = SubSeq(response, 1, Least(colons) - 1)
                   /\ ModInfo.ModList = Slice(<<>>)
            /\ (colons # {} /\ Least(colons) + 1 < Len(response)) =>
                   LET entries == PluginEntries(SubSeq(response, Least(colons) + 2,
                                                       Len(response)))
                   IN  \A k \in 1..Len(entries) :
                           (\A i \in 1..Len(entries[k]) : entries[k][i] # 32) =>
                               ModInfo.ModList.elems[k] = (entries[k] :> <<>>)

PlayerParsed == call = "packagePlayerSection" /\ pc = "done"

\* The null-terminated names of a player section that stand before its
\* first empty name.
NamesBeforeEmpty(section) ==
    LET names == NullTerminatedFields(section)
        empty == {k \in 1..Len(names) : names[k] = <<>>}
    IN  IF empty = {} THEN names ELSE SubSeq(names, 1, Least(empty) - 1)

\* C13: the player list is the sequence, in order, of the null-terminated
\* names of the player section before the first empty name; a player
\* section shorter than 4 bytes gives no players.
C13_PlayerList ==
    PlayerParsed =>
        /\ Len(response) >= 4 =>
               result.status.Players.PlayerList = Slice(NamesBeforeEmpty(response))
        /\ Len(response) < 4 => result.status.Players.PlayerList.elems = <<>>

\* "A", "B", an empty name and "A" gave the players "A" and "B".
C13_Witness ==
    /\ PlayerParsed
    /\ response = <<65, 0, 66, 0, 0, 65, 0>>
    /\ result.status.Players.PlayerList = Slice(<<<<65>>, <<66>>>>)

\* C14: for every int n with 0 <= n < 2^35, readVarInt(writeVarInt(n))
\* returns n with no error.
C14_RoundTrip ==
    (call = "writeVarInt" /\ pc = "done") =>
        /\ result.err = NoErr
        /\ result.number = responseSize

\* The value of the 7-bit groups of at most 5 bytes, least significant group
\* first, as the int it is.
GroupInt(bs) ==
    [hi |-> IF Len(bs) >= 5 THEN bs[5] % 128 ELSE 0,
     lo |-> GroupValue(SubSeq(bs, 1, IF Len(bs) < 4 THEN Len(bs) ELSE 4))]

\* C15: decoding bytes of which the first 6 all have the continuation bit
\* fails with ErrLargeVarInt; bytes that hold a byte without the
\* continuation bit among their first 5 decode with no error to the value
\* of the 7-bit groups up to that byte, least significant group first.
C15_VarIntLimit ==
    (call = "readVarInt" /\ pc = "done") =>
        /\ (Len(sizePrefix) >= 6 /\ \A i \in 1..6 : sizePrefix[i] >= 128) =>
               result.err = ErrLargeVarInt
        /\ (\E i \in 1..5 : i <= Len(sizePrefix) /\ sizePrefix[i] < 128) =>
               /\ result.err = NoErr
               /\ result.number = GroupInt(SubSeq(sizePrefix, 1, VarIntSpan(sizePrefix)))

\* Five bytes with all 35 bits set were decoded to 2^35 - 1.
C15_Witness ==
    /\ call = "readVarInt"
    /\ pc = "done"
    /\ Len(sizePrefix) = 7
    /\ SubSeq(sizePrefix, 1, 5) = <<255, 255, 255, 255, 127>>
    /\ result = [number |-> [hi |-> 127, lo |-> Pow2(28) - 1], err |-> NoErr]

\* C17: whenever an entry point (Status, StatusLegacy, StatusBeta, BasicQuery,
\* FullQuery, Ping) returns a non-nil error, the result it returns with it
\* is the zero value of its response type, and for Ping the duration -1.
C17_NoPartialResult ==
    pc = "done" /\ result.err # NoErr =>
        CASE call = "Ping" -> result.latency = -1
          [] call = "Status" -> result.status = ZeroStatusResponse
          [] call = "StatusLegacy" -> result.status = ZeroStatusLegacyResponse
          [] call = "StatusBeta" -> result.status = ZeroStatusBetaResponse
          [] call = "BasicQuery" -> result.status = ZeroBasicQueryResponse
          [] call = "FullQuery" -> result.status = ZeroFullQueryResponse

\* StatusLegacy measured a latency and read a response, and returned the
\* missing-information error of the packaging.
C17_Witness ==
    /\ call = "StatusLegacy"
    /\ pc = "done"
    /\ latency > 0
    /\ Len(response) > legacyHeaderSize
    /\ result.err = ErrStatusLegacyMissingInformation

\* The Dial of the call succeeded.
ConnectionOpened ==
    \E i \in 1..Len(ops) : ops[i].op = "DialTimeout" /\ ops[i].err = NoErr

\* C18: in every handler, once the Dial has succeeded the connection is
\* closed when the call has returned, whatever the exit: success, write
\* error, read error or timeout, framing error, validation error.
C18_ClosedOnExit ==
    pc \in {"done", "panic"} /\ ConnectionOpened =>
        /\ con \in {"closed", "reset"}
        /\ \E i \in 1..Len(ops) : ops[i].op = "Close"

\* BasicQuery returned the error of the Write of its stat request.
C18_Witness ==
    /\ call = "BasicQuery"
    /\ pc = "done"
    /\ challengeToken # <<>>
    /\ result.err = ErrWrite
    /\ con = "closed"

\* The call was a TCP status call whose Dial succeeded, and it has returned.
StatusCallReturned ==
    /\ call \in {"Status", "StatusLegacy", "StatusBeta"}
    /\ pc = "done"
    /\ ConnectionOpened

\* con.Close() was called: a Close that does not follow SetLinger(0).
GracefulClose ==
    \E i \in 1..Len(ops) :
        ops[i].op = "Close" /\ (i = 1 \/ ops[i - 1].op # "SetLinger(0)")

\* C19 as stated: in Status, StatusLegacy and StatusBeta, on every exit
\* after a successful connect, on success as on failure, the connection is
\* terminated by the abortive close (SetLinger(0), then Close) and no
\* graceful close is applied to it.
C19_AbortiveOnEveryExit ==
    StatusCallReturned => con = "reset" /\ ~GracefulClose

\* The errors a status call returns from its exchange with the server,
\* before its con.Close().
ExchangeErrors == {ErrWrite, ErrRead, ErrLargeVarInt, ErrInvalidPong}

\* C19, amended: the deferred SetLinger(0) and Close are the last operations
\* of every exit after a successful connect, but they terminate the
\* connection only when the call fails in its exchange with the server (a
\* Write or Read error, a size prefix that is too large, an invalid pong).
\* On success and on an error of the packaging the call has closed the
\* connection gracefully with con.Close() before, and the abortive close
\* finds it closed.
C19_AbortiveOnExchangeError ==
    StatusCallReturned =>
        /\ Len(ops) >= 2
        /\ SubSeq(ops, Len(ops) - 1, Len(ops)) = ResetOps
        /\ IF result.err \in ExchangeErrors
           THEN con = "reset" /\ ~GracefulClose
           ELSE con = "closed" /\ GracefulClose

\* Status read a pong that is not the ping and returned ErrInvalidPong: the
\* deferred SetLinger(0) and Close terminated the open connection.
C19_Witness ==
    /\ StatusCallReturned
    /\ call = "Status"
    /\ result.err = ErrInvalidPong
    /\ con = "reset"
    /\ ~GracefulClose

\* C20: in every handler, once a network operation of the call (the Dial, a
\* Write or a Read) has failed or timed out, the call issues no further
\* Write or Read and no second Dial, only the closing of the connection,
\* and it returns the error of that operation to the caller.
C20_NoRetry ==
    \A i \in 1..Len(ops) :
        ops[i].err # NoErr =>
            /\ ops[i].op \in {"DialTimeout", "Write", "Read"}
            /\ \A j \in (i + 1)..Len(ops) : ops[j].op \in {"SetLinger(0)", "Close"}
            /\ StatusDone
            /\ result.err = ops[i].err

\* StatusBeta had read the size and a part of the response when a Read
\* failed.
C20_Witness ==
    /\ call = "StatusBeta"
    /\ pc = "done"
    /\ response # <<>>
    /\ ops[Len(ops) - 2].op = "Read"
    /\ ops[Len(ops) - 2].err = ErrRead
    /\ result.err = ErrRead

\* C21: every Write and every Read a handler issues is preceded by its own
\* deadline, set after the previous network operation of the call: the
\* operation issued just before it is a SetDeadline.
C21_FreshDeadline ==
    LET issued == SelectSeq(ops, LAMBDA o : o.op \notin {"Now", "Since"})
    IN  \A i \in 1..Len(issued) :
            issued[i].op \in {"Write", "Read"} => i > 1 /\ issued[i - 1].op = "SetDeadline"

\* C22: calls share no mutable state: in any interleaving of concurrent
\* calls, no call reads or writes a variable that another call writes.
C22_NoSharedState ==
    \A i, j \in 1..Len(ops) :
        ops[i].call # ops[j].call /\ ops[i].variable = ops[j].variable =>
            ops[i].access = "read" /\ ops[j].access = "read"

\* C23: Ping performs the exchange of Status and nothing more: when its
\* call of Status has returned, Ping issues no operation of its own and
\* returns an error exactly when Status returned one, the same error, with
\* the duration -1, also for a framing or a missing-information error; and
\* otherwise it returns the Latency of the status without error.
C23_PingOfStatus ==
    [][(call = "Ping" /\ pc = "StatusReturned" /\ pc' = "done") =>
            /\ UNCHANGED <<ops, con, wire>>
            /\ result'.err = result.err
            /\ result.err # NoErr => result'.latency = -1
            /\ result.err = NoErr => result'.latency = result.status.Latency]_vars

\* Ping returned the latency of 40 measured by Status.
C23_Witness ==
    /\ call = "Ping"
    /\ pc = "done"
    /\ result = [latency |-> 40, err |-> NoErr]
    /\ latency = 40

\* The states of a Status call in their order; Parsed is the return without
\* error.
StatusStates ==
    <<"Start", "Connected", "HandshakeSent", "SizePrefixRead", "PayloadRead", "PingSent",
      "PongReceived", "Parsed">>

\* The state of the call in a state with position p and returned error e.
StatusState(p, e) == IF p \in {"StatusReturned", "done"} /\ e = NoErr THEN "Parsed" ELSE p

\* The place of a state in the order, 0 for a call that has failed.
Place(state) ==
    IF \E n \in 1..Len(StatusStates) : StatusStates[n] = state
    THEN CHOOSE n \in 1..Len(StatusStates) : StatusStates[n] = state
    ELSE 0

\* A Write of the ping is among the operations issued.
PingWritten == \E i \in 1..Len(ops) : ops[i].op = "Write" /\ ops[i].data = pingPacket

\* C24: a Status call steps through Connected, HandshakeSent, SizePrefixRead,
\* PayloadRead, PingSent, PongReceived and Parsed in that order: each step
\* stays in its state, moves to the next one, or ends the call with an
\* error (the last step of a Ping call is Ping's own return). The ping is
\* written only when the payload is complete, and the payload is parsed
\* (the call returns without error or with an error of the packaging) only
\* when the pong has been read and equals the ping.
C24_StatusStates ==
    /\ [](PingWritten => ~intLess(int(Len(response)), responseSize))
    /\ [](/\ pc \in {"StatusReturned", "done"}
          /\ result.err \notin {ErrDial, ErrWrite, ErrRead, ErrLargeVarInt, ErrInvalidPong}
          => pong = pingPacket /\ PingWritten)
    /\ [][LET before == StatusState(pc, IF result = NoResult THEN NoErr ELSE result.err)
              after == StatusState(pc', IF result' = NoResult THEN NoErr ELSE result'.err)
          IN  \/ after = before
              \/ Place(before) > 0 /\ Place(after) = Place(before) + 1
              \/ Place(before) > 0 /\ pc' \in {"StatusReturned", "done"}
                    /\ result'.err # NoErr
              \/ pc = "StatusReturned" /\ pc' = "done"]_vars

\* A Status call went through every state and returned a parsed status.
C24_Witness ==
    /\ call = "Status"
    /\ pc = "done"
    /\ result.err = NoErr
    /\ Len(response) = 4
    /\ pong = pingPacket

\* The Writes and Reads among the operations issued, in their order.
NetworkOps == SelectSeq(ops, LAMBDA o : o.op \in {"Write", "Read"})

\* C25: a BasicQuery or FullQuery call issues the Write of the handshake,
\* the Read of the challenge, the Write of the stat request and the Read of
\* the response in that order, each at most once; the stat request is
\* written only when the Read of the challenge succeeded and a challenge
\* token of 4 bytes was parsed from it, and no packet is written twice.
C25_QueryExchange ==
    call \in {"BasicQuery", "FullQuery"} =>
        /\ Len(NetworkOps) <= 4
        /\ \A i \in 1..Len(NetworkOps) :
               NetworkOps[i].op = <<"Write", "Read", "Write", "Read">>[i]
        /\ Len(NetworkOps) >= 1 =>
               NetworkOps[1].data = <<254, 253, 9>> \o sessionID
        /\ Len(NetworkOps) >= 3 =>
               /\ NetworkOps[1].err = NoErr
               /\ NetworkOps[2].err = NoErr
               /\ Len(challengeToken) = 4
               /\ SubSeq(NetworkOps[3].data, 1, 3) = <<254, 253, 0>>
               /\ NetworkOps[3].data # NetworkOps[1].data
        /\ Len(NetworkOps) = 4 => NetworkOps[3].err = NoErr

\* A FullQuery call made the four operations and returned a response.
C25_Witness ==
    /\ call = "FullQuery"
    /\ pc = "done"
    /\ result.err = NoErr
    /\ Len(NetworkOps) = 4

\* C26: every session ID generated is 4 bytes, each with its high nibble
\* clear, and the handshake packet of the query is the 7 bytes 0xFE, 0xFD,
\* 0x09 and that session ID.
C26_SessionID ==
    /\ (call = "createSessionID" /\ pc \in {"created", "done"}) =>
           /\ Len(sessionID) = 4
           /\ \A i \in 1..4 : sessionID[i] \in 0..255 /\ sessionID[i] \div 16 = 0
    /\ (call = "createSessionID" /\ pc = "done") =>
           /\ Len(result) = 7
           /\ result = <<254, 253, 9, sessionID[1], sessionID[2], sessionID[3], sessionID[4]>>

\* The handshake packet of a random number whose bytes all have their high
\* nibble set.
C26_Witness ==
    /\ call = "createSessionID"
    /\ pc = "done"
    /\ response = <<255, 240, 255, 16>>
    /\ result = <<254, 253, 9, 15, 0, 15, 0>>

\* The stat request the call has written: its second Write.
StatRequestWritten == call \in {"BasicQuery", "FullQuery"} /\ Len(NetworkOps) >= 3

\* C27: the stat request of a query call is 0xFE, 0xFD, 0x00, the 4 bytes
\* of the session ID the call sent in its handshake, and the 4 bytes of the
\* challenge token parsed from the call's challenge reply, followed by four
\* zero bytes when and only when the call is a FullQuery: 11 bytes for
\* BasicQuery and 15 for FullQuery.
C27_StatRequest ==
    StatRequestWritten =>
        LET handshake == NetworkOps[1].data
            request == NetworkOps[3].data
            sent == SubSeq(handshake, 4, 7)
        IN  /\ Len(handshake) = 7
            /\ Len(challengeToken) = 4
            /\ Len(request) = IF call = "FullQuery" THEN 15 ELSE 11
            /\ SubSeq(request, 1, 3) = <<254, 253, 0>>
            /\ SubSeq(request, 4, 7) = sent
            /\ SubSeq(request, 8, 11) = challengeToken
            /\ call = "FullQuery" => SubSeq(request, 12, 15) = <<0, 0, 0, 0>>

\* BasicQuery wrote a stat request of 11 bytes with the token of the reply
\* "-5", 0xFFFFFFFB.
C27_Witness ==
    /\ StatRequestWritten
    /\ call = "BasicQuery"
    /\ challengeToken = <<255, 255, 255, 251>>
    /\ Len(NetworkOps[3].data) = 11

\* The Read of the challenge reply succeeded and no response has been read
\* since: response is the challenge reply as it was read.
ChallengeReplyRead ==
    /\ call \in {"BasicQuery", "FullQuery"}
    /\ Len(NetworkOps) \in 2..3
    /\ NetworkOps[2].err = NoErr

\* C28: a challenge reply shorter than 7 bytes fails with
\* ErrShortChallengeToken, whatever its last byte; a reply of at least 7 bytes
\* whose last byte is not 0x00 fails with
\* ErrAbsentChallengeTokenNullTerminator; in both cases the call returns
\* without writing a stat request.
C28_ChallengeReplyErrors ==
    ChallengeReplyRead =>
        /\ Len(response) < 7 =>
               /\ pc = "done"
               /\ result.err = ErrShortChallengeToken
               /\ Len(NetworkOps) = 2
        /\ (Len(response) >= 7 /\ response[Len(response)] # 0) =>
               /\ pc = "done"
               /\ result.err = ErrAbsentChallengeTokenNullTerminator
               /\ Len(NetworkOps) = 2

\* A reply of 6 bytes whose last byte is not a null failed as too short.
C28_Witness ==
    /\ ChallengeReplyRead
    /\ response = <<9, 0, 0, 0, 1, 49>>
    /\ pc = "done"
    /\ result.err = ErrShortChallengeToken

\* The 4 bytes of the big-endian two's-complement encoding of v.
twosComplement(v) == [i \in 1..4 |-> (v \div (256 ^ (4 - i))) % 256]

\* C29: for every 32-bit signed integer v, the challenge reply made of the
\* 5 header bytes, the decimal text of v and a null parses without error to
\* the 4 bytes of the big-endian two's-complement encoding of v.
C29_ParsesEveryInt32 ==
    \A v \in TokenValues :
        (call = "parseChallengeToken" /\ pc # "call" /\ response = ChallengeReplyOf(v)) =>
            /\ pc = "done"
            /\ result = [token |-> twosComplement(v), err |-> NoErr]

\* C30: the parsing of a challenge reply of 0 to 32 bytes ends with a token
\* of 4 bytes or with an error returned, never with an index out of range.
C30_NeverPanics ==
    (call = "parseChallengeToken" /\ pc # "call") =>
        /\ pc = "done"
        /\ \/ result.err = NoErr /\ Len(result.token) = 4
           \/ result.err # NoErr

\* The VarInt of the protocol for an int that is not negative: its 7-bit
\* groups, least significant first, each but the last with the bit 0x80.
RECURSIVE varint(_)
varint(n) ==
    IF n.hi = 0 /\ n.lo < 128 THEN <<n.lo>>
    ELSE <<128 + (n.lo % 128)>>
             \o varint([hi |-> n.hi \div 128, lo |-> n.lo \div 128 + (n.hi % 128) * Pow2(21)])

\* The request of the claim for a host of length bytes: the bytes before
\* the host and the bytes after it.
RequestOf(length, port) ==
    LET L == intAdd(length, Len(varint(length)) + 5)
    IN  [head |-> varint(L) \o <<0, 47>> \o varint(length),
         tail |-> <<(port \div 256) % 256, port % 256, 1, 1, 0>>]

\* C31: for every host shorter than 2^32 bytes and every port the request
\* written is varint(L), 0x00, 47, varint(len(host)), the host, the port in
\* 2 big-endian bytes, 0x01 and the request body 0x01 0x00, with
\* L = len(host) + len(varint(len(host))) + 5.
C31_Request ==
    (call = "initiateStatusRequest" /\ pc = "done") =>
        result = RequestOf(response.server, response.port)

\* readStatusResponse has returned the payload without an error.
PayloadReadSucceeded ==
    /\ call \in {"Status", "Ping"}
    /\ pc \in {"PayloadRead", "PingSent", "PongReceived"}

\* C32: when the read of the payload succeeds, the payload handed on holds
\* exactly as many bytes as the size prefix declared, however the bytes of
\* the server are split over the Reads.
C32_ExactPayload ==
    PayloadReadSucceeded => int(Len(response)) = responseSize

\* The next 10 bytes of the server's stream are the bytes of the ping.
PongOnStream == Len(wire) >= pongSize /\ SubSeq(wire, 1, pongSize) = pingPacket

\* C33: a pong whose 10 bytes are those of the ping is accepted however the
\* transport delivers it, also over two or more partial reads: the latency
\* step ends with the pong accepted unless a Read returns an error.
C33_PongAccepted ==
    [][(pc = "PingSent" /\ PongOnStream /\ pc' # "PingSent") =>
           (pc' = "PongReceived" \/ result'.err = ErrRead)]_vars

\* C34: the reading of the size prefix is bounded by the limit of the
\* VarInt: while the server sends bytes with the continuation bit, the call
\* stops reading size-prefix bytes after at most 6 of them.
C34_BoundedSizePrefix ==
    call \in {"Status", "Ping"} => Len(sizePrefix) <= 6

\* parseLegacyStatusResponse has split a response of at least 10 bytes.
LegacySplit == call = "parseLegacyStatusResponse" /\ pc = "done" /\ Len(response) >= 10

\* C35: after the 9-byte header a field ends at the second byte of each
\* pair of consecutive nulls, pairs not overlapping; a null followed by
\* another byte ends nothing; the bytes after the last pair are the final
\* field: the fields are one more than the pairs, and an input that ends in
\* a pair has an empty final field.
C35_LegacySplitting ==
    LegacySplit =>
        LET bs == SubSeq(response, 10, Len(response))
            fields == result.responseList
        IN  /\ result.err = NoErr
            /\ Len(fields) = Cardinality(PairEnds(bs)) + 1
            /\ fields = LegacyFieldsOf(bs)
            /\ Len(bs) \in PairEnds(bs) => fields[Len(fields)] = <<>>

\* "1", a lone null and "1" make one field; the three nulls that follow
\* hold one pair, and the pair at the end leaves an empty final field.
C35_Witness ==
    /\ LegacySplit
    /\ SubSeq(response, 10, Len(response)) = <<49, 0, 49, 0, 0, 0, 49, 0, 0>>
    /\ result.responseList = <<(<<49, 49>>), (<<49>>), (<<>>)>>

\* C36: a legacy status response of fewer than 10 bytes fails with
\* ErrShortStatusLegacyResponse, with no field split from it.
C36_ShortLegacyResponse ==
    (call = "parseLegacyStatusResponse" /\ pc = "done" /\ Len(response) < 10) =>
        /\ result.err = ErrShortStatusLegacyResponse
        /\ result.responseList = <<>>

\* The 3 bytes of the header as readBetaStatusResponseSize holds them have
\* been read.
BetaHeaderRead == call = "StatusBeta" /\ Len(sizePrefix) = betaHeaderSize

\* A Read of the call returned an error.
ReadFailed == \E i \in 1..Len(ops) : ops[i].op = "Read" /\ ops[i].err # NoErr

Positions(name) == {i \in 1..Len(ops) : ops[i].op = name}

\* A StatusLegacy, BasicQuery or FullQuery call has read its response and
\* taken the latency.
LatencyTaken ==
    /\ call \in {"StatusLegacy", "BasicQuery", "FullQuery"}
    /\ Positions("Since") # {}

\* The position of the Write of the request packet: the last Write.
RequestWrittenAt == CHOOSE i \in Positions("Write") : \A j \in Positions("Write") : j <= i

\* C38 as stated: in StatusLegacy, BasicQuery and FullQuery the timed
\* interval starts before the request packet is written and ends after the
\* response has been read.
C38_TotalRoundTrip ==
    LatencyTaken =>
        /\ \A n \in Positions("Now") : n < RequestWrittenAt
        /\ \A e \in Positions("Since") : \A r \in Positions("Read") : r < e

\* C38 amended: the timed interval starts after the request packet has been
\* written, right before the Read of the response, and ends right after
\* that Read: the latency returned is the time waited for the response.
C38_TimeWaited ==
    LatencyTaken =>
        /\ Cardinality(Positions("Now")) = 1
        /\ Cardinality(Positions("Since")) = 1
        /\ \A n \in Positions("Now") :
               /\ RequestWrittenAt < n
               /\ ops[n + 1].op = "Read"
               /\ ops[n + 1].err = NoErr
               /\ ops[n + 2].op = "Since"
               /\ \A r \in Positions("Read") : r <= n + 1
        /\ (pc = "done" /\ result.err = NoErr) => result.status.Latency = latency

\* A StatusLegacy call returned the 40 units its Read of the response took.
C38_Witness ==
    /\ LatencyTaken
    /\ call = "StatusLegacy"
    /\ pc = "done"
    /\ result.err = NoErr
    /\ result.status.Latency = 40

\* The null-terminated strings of bs in order: the pieces between the
\* nulls, without the piece behind the last null.
TerminatedStrings(bs) ==
    LET pieces == Split(bs, <<0>>)
    IN  SubSeq(pieces, 1, Len(pieces) - 1)

KeyValueParsed == call = "parseKeyValueSection" /\ pc = "done"

\* C39: a key-value section shorter than 16 bytes fails with the
\* short-response error; otherwise the mapping pairs the null-terminated
\* strings behind the 16-byte header in order, the 1st with the 2nd, the 3rd
\* with the 4th and so on; a later pair replaces an earlier pair of the same
\* key, and a last string without a partner or without its null adds
\* nothing.
C39_KeyValuePairs ==
    KeyValueParsed =>
        IF Len(response) < keyValueHeaderSize
        THEN result.err = ErrShortQueryResponse
        ELSE LET strings == TerminatedStrings(SubSeq(response, 17, Len(response)))
                 pairs == 1..(Len(strings) \div 2)
                 keys == {strings[2 * j - 1] : j \in pairs}
                 lastPairOf(key) ==
                     CHOOSE j \in pairs :
                         /\ strings[2 * j - 1] = key
                         /\ \A o \in pairs : strings[2 * o - 1] = key => o <= j
                 doc == result.responseMapBytes
             IN  /\ result.err = NoErr
                 /\ {doc[i].key : i \in 1..Len(doc)} = keys
                 /\ Len(doc) = Cardinality(keys)
                 /\ \A i \in 1..Len(doc) :
                        doc[i].value = strings[2 * lastPairOf(doc[i].key)]

\* The pairs "A"-"" and "A"-"B" and an unterminated "B": the mapping is
\* "A" to "B" alone.
C39_Witness ==
    /\ KeyValueParsed
    /\ SubSeq(response, 17, Len(response)) = <<65, 0, 0, 65, 0, 66, 0, 66>>
    /\ result.responseMapBytes = <<[key |-> <<65>>, value |-> <<66>>]>>

\* text holds no null byte.
NoNull(text) == \A i \in 1..Len(text) : text[i] # 0

\* The texts of fields one behind the other.
RECURSIVE Flatten(_)
Flatten(fields) == IF fields = <<>> THEN <<>> ELSE Head(fields) \o Flatten(Tail(fields))

\* C40: no text field the null-framing parsers produce holds a null byte.
\* Legacy fields hold the bytes of the input that are not null, a lone null
\* inside a field being dropped; the basic-query fields and the player
\* names are null-terminated strings of the input, so the bytes behind the
\* last null are in no field; the keys and values of the full query hold
\* no null.
C40_NoNullInFields ==
    pc = "done" =>
        /\ (call = "parseLegacyStatusResponse" /\ Len(response) >= 10) =>
               /\ \A k \in 1..Len(result.responseList) : NoNull(result.responseList[k])
               /\ Flatten(result.responseList) = NonNull(SubSeq(response, 10, Len(response)))
        /\ (call = "parseBasicQueryResponse" /\ Len(response) >= 5) =>
               /\ \A k \in 1..Len(result.responseSlice) : NoNull(result.responseSlice[k])
               /\ result.responseSlice = NullTerminatedFields(SubSeq(response, 6, Len(response)))
               /\ result.err = NoErr =>
                      /\ NoNull(result.basicQuery.Description)
                      /\ NoNull(result.basicQuery.GameType)
                      /\ NoNull(result.basicQuery.MapName)
        /\ (call = "parseKeyValueSection" /\ Len(response) >= 16) =>
               \A i \in 1..Len(result.responseMapBytes) :
                   /\ NoNull(result.responseMapBytes[i].key)
                   /\ NoNull(result.responseMapBytes[i].value)
        /\ call = "packagePlayerSection" =>
               LET names == result.status.Players.PlayerList.elems
                   terminated == NullTerminatedFields(response)
               IN  /\ \A k \in 1..Len(names) : NoNull(names[k])
                   /\ Len(names) <= Len(terminated)
                   /\ names = SubSeq(terminated, 1, Len(names))

\* A legacy response with a lone null inside its first field and bytes
\* behind its last pair of nulls: the fields are "11" and "1".
C40_Witness ==
    /\ call = "parseLegacyStatusResponse"
    /\ pc = "done"
    /\ SubSeq(response, 10, Len(response)) = <<49, 0, 49, 0, 0, 49>>
    /\ result.responseList = <<(<<49, 49>>), (<<49>>)>>

====
